---- MODULE Spec2Model ----
(***************************************************************************)
(* Shufflr: the credential store, the settings store, the session manager  *)
(* and the two guards (admin session, API key) with the handlers they      *)
(* gate.  Strings of the program are TLA+ strings; a store call that can   *)
(* fail takes the outcome of the underlying query as an input.             *)
(***************************************************************************)
EXTENDS Integers, Sequences, FiniteSets, TLC

VARIABLES
    api_keys,       \* rows of table api_keys
    keySeq,         \* AUTOINCREMENT counter of api_keys
    randSeq,        \* number of draws made from crypto/rand for API keys
    settings,       \* table settings: a function from the keys that have a row to their values
    image_files,    \* rows of table image_files
    disk,           \* filenames present in the upload directory
    fileData,       \* the content of each file in the upload directory
    uploads,        \* the uploadFile calls in flight, by connection
    api_requests,   \* rows of table api_requests (a bag kept as a sequence)
    regen,          \* the HandleRegenerateAPIKey call in flight, or Idle
    settingsJob,    \* the HandleSettings POST in flight, or Idle
    req,            \* the public API request in flight, or Idle
    adminResp,      \* what the last finished admin handler answered
    issued,         \* history: each raw token drawn, the row created for it, and the
                    \* number of responses that carried the token
    requireHist,    \* history: who last wrote require_api_key_for_images, and whether
                    \* it was written since the latest public request arrived
    storeKey,       \* the key bytes the cookie store of this process was built with
    boots,          \* number of session secrets drawn from crypto/rand so far
    admin_users,    \* rows of table admin_users
    adminSeq,       \* AUTOINCREMENT counter of admin_users
    setup,          \* the HandleSetup calls in flight, by connection
    jar,            \* the session cookie the browser holds, or NoCookie
    kept,           \* a copy of a session cookie value that a client has retained
    web             \* the last browser-side event and its outcome

vars == <<api_keys, keySeq, randSeq, settings, image_files, disk, fileData, uploads,
          api_requests,
          regen, settingsJob, req, adminResp, issued, requireHist,
          storeKey, boots, admin_users, adminSeq, setup, jar, kept, web>>

keyVars     == <<api_keys, keySeq, randSeq, issued>>
imageVars   == <<image_files, disk, fileData, uploads>>
sessionVars == <<storeKey, boots, admin_users, adminSeq, setup, jar, kept, web>>

-----------------------------------------------------------------------------
(* Bounds *)

MaxKeys == 2        \* API keys created in a run
MaxLogRows == 1     \* rows of api_requests after which no further list request is started
MaxBoots == 1       \* restarts that draw a fresh random session secret
NumConns == 2       \* connections that can run HandleSetup at the same time
MaxSeedRuns == 2    \* runs of InitializeDefaultSettings on one store
MaxFiles == 4       \* files in the upload directory after which no upload starts

-----------------------------------------------------------------------------
(* Values *)

Nil    == [nil |-> TRUE]
Idle   == [pc |-> "idle"]

\* strings.HasPrefix / strings.TrimPrefix
HasPrefix(s, p) == Len(s) >= Len(p) /\ SubSeq(s, 1, Len(p)) = p
TrimPrefix(s, p) == IF HasPrefix(s, p) THEN SubSeq(s, Len(p) + 1, Len(s)) ELSE s

\* strings.TrimSpace, on the blanks the forms below can carry
RECURSIVE TrimLeft(_)
TrimLeft(s) == IF HasPrefix(s, " ") THEN TrimLeft(SubSeq(s, 2, Len(s))) ELSE s
RECURSIVE TrimRight(_)
TrimRight(s) ==
    IF Len(s) > 0 /\ SubSeq(s, Len(s), Len(s)) = " "
    THEN TrimRight(SubSeq(s, 1, Len(s) - 1)) ELSE s
TrimSpace(s) == TrimRight(TrimLeft(s))

\* strconv.Atoi on the decimal strings of AtoiRange; any other string is an error
AtoiRange == -1 .. 100
AtoiTable == [n \in AtoiRange |-> ToString(n)]
Atoi(s) ==
    IF \E n \in AtoiRange : AtoiTable[n] = s
    THEN [ok |-> TRUE, val |-> CHOOSE n \in AtoiRange : AtoiTable[n] = s]
    ELSE [ok |-> FALSE, val |-> 0]

\* hex.EncodeToString of the n-th 32 bytes drawn from crypto/rand: every draw
\* gives a string no earlier draw gave
RawKey(n) == "k" \o ToString(n)

\* hex of sha256.Sum256: injective, and never the string it was computed from
SHA256Hex(s) == "sha256:" \o s

-----------------------------------------------------------------------------
(* Credential store: api_keys *)

KeyById(id) == {k \in api_keys : k.id = id}

\* DB.GetAPIKeyByKey with the enabled condition of the query left out
GetAPIKeyByKey_AnyEnabled(apiKey, queryOK) ==
    LET keyHash == SHA256Hex(apiKey)
        rows    == {k \in api_keys : k.key_hash = keyHash}
    IN  IF ~queryOK THEN [err |-> TRUE, key |-> Nil]
        ELSE IF rows = {} THEN [err |-> FALSE, key |-> Nil]
        ELSE [err |-> FALSE, key |-> CHOOSE k \in rows : TRUE]

\* DB.GetAPIKeyByKey: SELECT ... WHERE key_hash = ? AND enabled = 1
GetAPIKeyByKey(apiKey, queryOK) ==
    LET keyHash == SHA256Hex(apiKey)
        rows    == {k \in api_keys : k.key_hash = keyHash /\ k.enabled}
    IN  IF ~queryOK THEN [err |-> TRUE, key |-> Nil]
        ELSE IF rows = {} THEN [err |-> FALSE, key |-> Nil]
        ELSE [err |-> FALSE, key |-> CHOOSE k \in rows : TRUE]

\* DB.GetAllAPIKeys: every column of every row
GetAllAPIKeys(queryOK) ==
    IF ~queryOK THEN [err |-> TRUE, keys |-> {}] ELSE [err |-> FALSE, keys |-> api_keys]

\* DB.CreateAPIKey with the key itself written to the key_hash column
CreateAPIKey_StoresRaw(name, randOK, execOK) ==
    LET apiKey == RawKey(randSeq + 1)
        row    == [id |-> keySeq + 1, key_hash |-> apiKey, name |-> name,
                   enabled |-> TRUE, last_used |-> FALSE]
    IN  IF ~randOK THEN [err |-> TRUE, raw |-> "", rows |-> api_keys,
                         seq |-> keySeq, rand |-> randSeq, hist |-> issued]
        ELSE IF ~execOK THEN [err |-> TRUE, raw |-> "", rows |-> api_keys,
                              seq |-> keySeq, rand |-> randSeq + 1, hist |-> issued]
        ELSE [err |-> FALSE, raw |-> apiKey, rows |-> api_keys \cup {row},
              seq |-> keySeq + 1, rand |-> randSeq + 1,
              hist |-> issued \cup {[raw |-> apiKey, id |-> row.id, name |-> name,
                                     shown |-> 0]}]

\* DB.CreateAPIKey: the raw key, its row, and whether the call failed
CreateAPIKey(name, randOK, execOK) ==
    LET apiKey == RawKey(randSeq + 1)
        row    == [id |-> keySeq + 1, key_hash |-> SHA256Hex(apiKey), name |-> name,
                   enabled |-> TRUE, last_used |-> FALSE]
    IN  IF ~randOK THEN [err |-> TRUE, raw |-> "", rows |-> api_keys,
                         seq |-> keySeq, rand |-> randSeq, hist |-> issued]
        ELSE IF ~execOK THEN [err |-> TRUE, raw |-> "", rows |-> api_keys,
                              seq |-> keySeq, rand |-> randSeq + 1, hist |-> issued]
        ELSE [err |-> FALSE, raw |-> apiKey, rows |-> api_keys \cup {row},
              seq |-> keySeq + 1, rand |-> randSeq + 1,
              hist |-> issued \cup {[raw |-> apiKey, id |-> row.id, name |-> name,
                                     shown |-> 0]}]

\* DB.UpdateAPIKeyEnabled: UPDATE api_keys SET enabled = ? WHERE id = ?
UpdateAPIKeyEnabled(keyID, enabled) ==
    {IF k.id = keyID THEN [k EXCEPT !.enabled = enabled] ELSE k : k \in api_keys}

\* DB.UpdateAPIKeyLastUsed: UPDATE api_keys SET last_used = CURRENT_TIMESTAMP WHERE id = ?
UpdateAPIKeyLastUsed(keyID) ==
    {IF k.id = keyID THEN [k EXCEPT !.last_used = TRUE] ELSE k : k \in api_keys}

\* DB.DeleteAPIKey with a statement that matches no row
DeleteAPIKey_NoRow(keyID) == api_keys

\* DB.DeleteAPIKey: DELETE FROM api_keys WHERE id = ?
DeleteAPIKey(keyID) == {k \in api_keys : k.id # keyID}

-----------------------------------------------------------------------------
(* Admin handlers for API keys (each runs behind RequireAdminAuth) *)

LongName == "nnnnnnnnnnnnnnnnnnnnnnnnnnnnnnnnnnnnnnnnnnnnnnnnnnnnnnnnnnnnnnnnnnnnnnnnnnnnnnnnnnnnnnnnnnnnnnnnnnnnn"

Methods     == {"GET", "POST"}
FormNames   == {"", " ", "app", " web ", LongName}
FormKeyIDs  == {"abc"} \cup {ToString(i) : i \in 1 .. MaxKeys}
FormEnabled == {"true", "false", ""}

\* what an admin handler answered: the status, the redirect target or page, the
\* message, the raw key on the page, and the ids the handler logged
Resp(handler, code, target, msg, newAPIKey, keyID, newID) ==
    [handler |-> handler, code |-> code, target |-> target, msg |-> msg,
     newAPIKey |-> newAPIKey, keyID |-> keyID, newID |-> newID]

NoResp == Resp("", 0, "", "", "", 0, 0)

\* history: a response has carried the raw token
Shown(hist, raw) == {IF i.raw = raw THEN [i EXCEPT !.shown = @ + 1] ELSE i : i \in hist}

HandleNewAPIKey(method, formName, randOK, execOK) ==
    LET name == TrimSpace(formName)
        c    == CreateAPIKey(name, randOK, execOK)
        page(msg, raw, id) == Resp("new", 200, "new-api-key.html", msg, raw, 0, id)
    IN  /\ UNCHANGED <<settings, imageVars, api_requests, regen, settingsJob, req,
                       requireHist, sessionVars>>
        /\ IF method # "POST"
           THEN /\ adminResp' = page("", "", 0)
                /\ UNCHANGED keyVars
           ELSE IF name = ""
           THEN /\ adminResp' = page("API key name is required", "", 0)
                /\ UNCHANGED keyVars
           ELSE IF Len(name) > 100
           THEN /\ adminResp' = page("API key name must be 100 characters or less", "", 0)
                /\ UNCHANGED keyVars
           ELSE /\ randSeq < MaxKeys
                /\ api_keys' = c.rows
                /\ keySeq' = c.seq
                /\ randSeq' = c.rand
                /\ issued' = IF c.err THEN c.hist ELSE Shown(c.hist, c.raw)
                /\ adminResp' = IF c.err
                                THEN page("Failed to create API key", "", 0)
                                ELSE page("", c.raw, c.seq)

HandleToggleAPIKey(method, keyIDStr, enabledStr, execOK) ==
    LET keyID   == Atoi(keyIDStr)
        enabled == (enabledStr = "true")
        to(msg) == Resp("toggle", 303, "/admin/api-keys", msg, "", keyID.val, 0)
    IN  /\ UNCHANGED <<keySeq, randSeq, issued, settings, imageVars, api_requests,
                       regen, settingsJob, req, requireHist, sessionVars>>
        /\ IF method # "POST"
           THEN /\ adminResp' = Resp("toggle", 405, "", "Method not allowed", "", 0, 0)
                /\ UNCHANGED api_keys
           ELSE IF ~keyID.ok
           THEN /\ adminResp' = to("error=Invalid key ID")
                /\ UNCHANGED api_keys
           ELSE IF ~execOK
           THEN /\ adminResp' = to("error=Failed to update API key")
                /\ UNCHANGED api_keys
           ELSE /\ api_keys' = UpdateAPIKeyEnabled(keyID.val, enabled)
                /\ adminResp' = to(IF enabled
                                   THEN "success=API key enabled successfully"
                                   ELSE "success=API key disabled successfully")

HandleDeleteAPIKey(method, keyIDStr, execOK) ==
    LET keyID   == Atoi(keyIDStr)
        to(msg) == Resp("delete", 303, "/admin/api-keys", msg, "", keyID.val, 0)
    IN  /\ UNCHANGED <<keySeq, randSeq, issued, settings, imageVars, api_requests,
                       regen, settingsJob, req, requireHist, sessionVars>>
        /\ IF method # "POST"
           THEN /\ adminResp' = Resp("delete", 405, "", "Method not allowed", "", 0, 0)
                /\ UNCHANGED api_keys
           ELSE IF ~keyID.ok
           THEN /\ adminResp' = to("error=Invalid key ID")
                /\ UNCHANGED api_keys
           ELSE IF ~execOK
           THEN /\ adminResp' = to("error=Failed to delete API key")
                /\ UNCHANGED api_keys
           ELSE /\ api_keys' = DeleteAPIKey(keyID.val)
                /\ adminResp' = to("success=API key deleted successfully")

\* HandleRegenerateAPIKey up to and including GetAllAPIKeys and the search for the row
RegenerateLookup(method, keyIDStr, queryOK) ==
    LET keyID   == Atoi(keyIDStr)
        to(msg) == Resp("regenerate", 303, "/admin/api-keys", msg, "", keyID.val, 0)
    IN  /\ regen = Idle
        /\ UNCHANGED <<keyVars, settings, imageVars, api_requests, settingsJob, req,
                       requireHist, sessionVars>>
        /\ IF method # "POST"
           THEN /\ adminResp' = Resp("regenerate", 405, "", "Method not allowed", "", 0, 0)
                /\ UNCHANGED regen
           ELSE IF ~keyID.ok
           THEN /\ adminResp' = to("error=Invalid key ID")
                /\ UNCHANGED regen
           ELSE IF ~queryOK
           THEN /\ adminResp' = to("error=Failed to regenerate API key")
                /\ UNCHANGED regen
           ELSE IF KeyById(keyID.val) = {}
           THEN /\ adminResp' = to("error=API key not found")
                /\ UNCHANGED regen
           ELSE /\ regen' = [pc |-> "delete", keyID |-> keyID.val,
                             existingKey |-> CHOOSE k \in KeyById(keyID.val) : TRUE]
                /\ UNCHANGED adminResp

\* HandleRegenerateAPIKey: s.db.DeleteAPIKey(keyID)
RegenerateDelete(execOK) ==
    /\ regen.pc = "delete"
    /\ UNCHANGED <<keySeq, randSeq, issued, settings, imageVars, api_requests,
                   settingsJob, req, requireHist, sessionVars>>
    /\ IF ~execOK
       THEN /\ adminResp' = Resp("regenerate", 303, "/admin/api-keys",
                                 "error=Failed to regenerate API key", "", regen.keyID, 0)
            /\ regen' = Idle
            /\ UNCHANGED api_keys
       ELSE /\ api_keys' = DeleteAPIKey(regen.keyID)
            /\ regen' = [regen EXCEPT !.pc = "create"]
            /\ UNCHANGED adminResp

\* HandleRegenerateAPIKey: s.db.CreateAPIKey(existingKey.Name), the raw key dropped
RegenerateCreate(randOK, execOK) ==
    LET c == CreateAPIKey(regen.existingKey.name, randOK, execOK)
    IN  /\ regen.pc = "create"
        /\ randSeq < MaxKeys
        /\ UNCHANGED <<settings, imageVars, api_requests, settingsJob, req,
                       requireHist, sessionVars>>
        /\ api_keys' = c.rows
        /\ keySeq' = c.seq
        /\ randSeq' = c.rand
        /\ issued' = c.hist
        /\ regen' = Idle
        /\ adminResp' = Resp("regenerate", 303, "/admin/api-keys",
                             IF c.err THEN "error=Failed to regenerate API key"
                             ELSE "success=API key regenerated successfully",
                             "", regen.keyID, IF c.err THEN 0 ELSE c.seq)

-----------------------------------------------------------------------------
(* Settings store *)

RequireKey == "require_api_key_for_images"

\* the defaults map of DB.InitializeDefaultSettings
DefaultSettings ==
    [k \in {RequireKey, "default_image_count", "max_image_count", "cors_enabled",
            "cors_origins"} |->
        CASE k = RequireKey            -> "true"
          [] k = "default_image_count" -> "20"
          [] k = "max_image_count"     -> "100"
          [] k = "cors_enabled"        -> "true"
          [] k = "cors_origins"        -> "*"]

\* DB.GetSetting as a cache filled at start-up would answer it: the seeded default
GetSetting_Cached(key, queryOK) ==
    IF ~queryOK THEN [err |-> TRUE, value |-> ""]
    ELSE [err |-> FALSE, value |-> DefaultSettings[key]]

\* DB.GetSetting with a failed query answered like a missing row
GetSetting_ErrAsNoRows(key, queryOK) ==
    IF ~queryOK THEN [err |-> FALSE, value |-> ""]
    ELSE IF key \in DOMAIN settings THEN [err |-> FALSE, value |-> settings[key]]
    ELSE [err |-> FALSE, value |-> ""]

\* DB.GetSetting: the value, "" when the key has no row, an error when the query fails
GetSetting(key, queryOK) ==
    IF ~queryOK THEN [err |-> TRUE, value |-> ""]
    ELSE IF key \in DOMAIN settings THEN [err |-> FALSE, value |-> settings[key]]
    ELSE [err |-> FALSE, value |-> ""]

\* history: what a read of key met in the store, and whether the query failed
Observed(key, queryOK) ==
    [failed |-> ~queryOK,
     value  |-> IF key \in DOMAIN settings THEN settings[key] ELSE ""]

\* DB.SetSetting: INSERT OR REPLACE INTO settings (key, value)
SetSetting(key, value) ==
    [k \in DOMAIN settings \cup {key} |-> IF k = key THEN value ELSE settings[k]]

\* fmt.Sprintf("%t", b)
FormatBool(b) == IF b THEN "true" ELSE "false"

\* HandleSettings up to the loop that saves: the GET page, the validation of a POST
SettingsSubmit(method, requireOn, defaultForm, maxForm, corsOn, originsForm) ==
    LET requireAPIKey     == (requireOn = "on")
        corsEnabled       == (corsOn = "on")
        defaultImageCount == IF defaultForm = "" THEN "20" ELSE defaultForm
        maxImageCount     == IF maxForm = "" THEN "100" ELSE maxForm
        corsOrigins       == IF originsForm = "" THEN "*" ELSE originsForm
        defaultCount      == Atoi(defaultImageCount)
        maxCount          == Atoi(maxImageCount)
        page(msg)         == Resp("settings", 200, "settings.html", msg, "", 0, 0)
    IN  /\ settingsJob = Idle
        /\ UNCHANGED <<keyVars, settings, imageVars, api_requests, regen, req,
                       requireHist, sessionVars>>
        /\ IF method # "POST"
           THEN /\ adminResp' = page("")
                /\ UNCHANGED settingsJob
           ELSE IF ~defaultCount.ok \/ defaultCount.val < 1
           THEN /\ adminResp' = page("Default image count must be a positive number")
                /\ UNCHANGED settingsJob
           ELSE IF ~maxCount.ok \/ maxCount.val < 1
           THEN /\ adminResp' = page("Maximum image count must be a positive number")
                /\ UNCHANGED settingsJob
           ELSE IF defaultCount.val > maxCount.val
           THEN /\ adminResp' =
                      page("Default image count cannot be greater than maximum image count")
                /\ UNCHANGED settingsJob
           ELSE /\ settingsJob' =
                      [pc |-> "save",
                       settingsToSave |->
                           [k \in DOMAIN DefaultSettings |->
                               CASE k = RequireKey            -> FormatBool(requireAPIKey)
                                 [] k = "default_image_count" -> defaultImageCount
                                 [] k = "max_image_count"     -> maxImageCount
                                 [] k = "cors_enabled"        -> FormatBool(corsEnabled)
                                 [] k = "cors_origins"        -> corsOrigins],
                       left |-> DOMAIN DefaultSettings,
                       saveError |-> FALSE]
                /\ UNCHANGED adminResp

\* HandleSettings: one turn of the loop over settingsToSave (a map: any order), and
\* after the last turn the redirect or the error page
SettingsSave(key, execOK) ==
    LET left      == settingsJob.left \ {key}
        saveError == settingsJob.saveError \/ ~execOK
    IN  /\ settingsJob.pc = "save"
        /\ key \in settingsJob.left
        /\ UNCHANGED <<keyVars, imageVars, api_requests, regen, req, sessionVars>>
        /\ settings' = IF execOK THEN SetSetting(key, settingsJob.settingsToSave[key])
                       ELSE settings
        /\ requireHist' = IF execOK /\ key = RequireKey
                          THEN [by |-> "admin", raced |-> TRUE]
                          ELSE requireHist
        /\ IF left # {}
           THEN /\ settingsJob' = [settingsJob EXCEPT !.left = left, !.saveError = saveError]
                /\ UNCHANGED adminResp
           ELSE /\ settingsJob' = Idle
                /\ adminResp' = IF saveError
                                THEN Resp("settings", 200, "settings.html",
                                          "Failed to save some settings", "", 0, 0)
                                ELSE Resp("settings", 303, "/admin/settings",
                                          "success=Settings saved successfully", "", 0, 0)

\* a start of the process reaches DB.InitializeDefaultSettings; before is the store
\* this run met, start the store the first run met, prev what the last run that
\* returned nil left
InitializeDefaultSettings_Enter ==
    /\ settingsJob.pc \in {"idle", "seeded"}
    /\ (settingsJob.pc = "seeded" => settingsJob.runs < MaxSeedRuns)
    /\ settingsJob' =
          IF settingsJob.pc = "idle"
          THEN [pc |-> "seed", left |-> DOMAIN DefaultSettings, err |-> FALSE, runs |-> 1,
                before |-> settings, start |-> settings, hasPrev |-> FALSE,
                prev |-> settings]
          ELSE [pc |-> "seed", left |-> DOMAIN DefaultSettings, err |-> FALSE,
                runs |-> settingsJob.runs + 1, before |-> settings,
                start |-> settingsJob.start,
                hasPrev |-> settingsJob.hasPrev \/ ~settingsJob.err,
                prev |-> IF settingsJob.err THEN settingsJob.prev ELSE settings]
    /\ UNCHANGED <<keyVars, settings, imageVars, api_requests, regen, req, adminResp,
                   requireHist, sessionVars>>

\* DB.InitializeDefaultSettings writing every default, whatever the store holds
InitializeDefaultSettings_Overwrite(key, queryOK, execOK) ==
    LET g    == GetSetting(key, queryOK)
        left == settingsJob.left \ {key}
        ret(err) == [settingsJob EXCEPT !.pc = "seeded", !.left = {}, !.err = err]
    IN  /\ settingsJob.pc = "seed"
        /\ key \in settingsJob.left
        /\ UNCHANGED <<keyVars, imageVars, api_requests, regen, req, adminResp,
                       requireHist, sessionVars>>
        /\ IF g.err \/ ~execOK
           THEN /\ settingsJob' = ret(TRUE)
                /\ UNCHANGED settings
           ELSE /\ settings' = SetSetting(key, DefaultSettings[key])
                /\ settingsJob' = IF left = {} THEN ret(FALSE)
                                  ELSE [settingsJob EXCEPT !.left = left]

\* DB.InitializeDefaultSettings: one turn of the loop over defaults (a map: any
\* order): GetSetting, then SetSetting when the value read is "", and the return
\* of the first error
InitializeDefaultSettings(key, queryOK, execOK) ==
    LET g    == GetSetting(key, queryOK)
        left == settingsJob.left \ {key}
        ret(err) == [settingsJob EXCEPT !.pc = "seeded", !.left = {}, !.err = err]
    IN  /\ settingsJob.pc = "seed"
        /\ key \in settingsJob.left
        /\ UNCHANGED <<keyVars, imageVars, api_requests, regen, req, adminResp,
                       requireHist, sessionVars>>
        /\ IF g.err \/ (g.value = "" /\ ~execOK)
           THEN /\ settingsJob' = ret(TRUE)
                /\ UNCHANGED settings
           ELSE /\ settings' = IF g.value = "" THEN SetSetting(key, DefaultSettings[key])
                               ELSE settings
                /\ settingsJob' = IF left = {} THEN ret(FALSE)
                                  ELSE [settingsJob EXCEPT !.left = left]

-----------------------------------------------------------------------------
(* Image catalogue *)

\* DB.GetImageFileCount: SELECT COUNT(*) FROM image_files WHERE enabled = 1
GetImageFileCount == Cardinality({i \in image_files : i.enabled})

\* DB.GetRandomImageFiles: the results ORDER BY RANDOM() LIMIT count can give
GetRandomImageFiles(count) ==
    LET on == {i \in image_files : i.enabled}
    IN  {pick \in SUBSET on :
            Cardinality(pick) = IF count < Cardinality(on) THEN count ELSE Cardinality(on)}

\* DB.UpdateImageEnabled: UPDATE image_files SET enabled = ? WHERE filename = ?
UpdateImageEnabled(filename, enabled) ==
    {IF i.filename = filename THEN [i EXCEPT !.enabled = enabled] ELSE i : i \in image_files}

\* DB.DeleteImageFile: DELETE FROM image_files WHERE filename = ?
DeleteImageFile(filename) == {i \in image_files : i.filename # filename}

\* HandleToggleImage (behind RequireAdminAuth)
HandleToggleImage(method, filename, enabledStr, execOK) ==
    LET enabled == (enabledStr = "true")
        to(msg) == Resp("toggleImage", 303, "/admin/images", msg, "", 0, 0)
    IN  /\ UNCHANGED <<keyVars, settings, disk, fileData, uploads, api_requests, regen,
                       settingsJob, req, requireHist, sessionVars>>
        /\ IF method # "POST"
           THEN /\ adminResp' = Resp("toggleImage", 405, "", "Method not allowed", "", 0, 0)
                /\ UNCHANGED image_files
           ELSE IF filename = ""
           THEN /\ adminResp' = to("error=Invalid filename")
                /\ UNCHANGED image_files
           ELSE IF ~execOK
           THEN /\ adminResp' = to("error=Failed to update image status")
                /\ UNCHANGED image_files
           ELSE /\ image_files' = UpdateImageEnabled(filename, enabled)
                /\ adminResp' = to(IF enabled THEN "success=Image enabled successfully"
                                   ELSE "success=Image disabled successfully")

\* HandleImageDelete (behind RequireAdminAuth): the row, then the file, whose
\* removal may fail and is then only logged
HandleImageDelete(method, filename, execOK, removeOK) ==
    LET to(msg) == Resp("deleteImage", 303, "/admin/images", msg, "", 0, 0)
    IN  /\ UNCHANGED <<keyVars, settings, api_requests, regen, settingsJob, req,
                       requireHist, sessionVars>>
        /\ IF method # "POST"
           THEN /\ adminResp' = Resp("deleteImage", 405, "", "Method not allowed", "", 0, 0)
                /\ UNCHANGED imageVars
           ELSE IF filename = ""
           THEN /\ adminResp' = to("error=Invalid filename")
                /\ UNCHANGED imageVars
           ELSE IF ~execOK
           THEN /\ adminResp' = to("error=Failed to delete from database")
                /\ UNCHANGED imageVars
           ELSE /\ image_files' = DeleteImageFile(filename)
                /\ disk' = IF removeOK THEN disk \ {filename} ELSE disk
                /\ fileData' = [f \in disk' |-> fileData[f]]
                /\ UNCHANGED uploads
                /\ adminResp' = to("success=Image deleted successfully")

\* filepath.Ext: the suffix from the last dot, "" without a dot
Ext(s) ==
    LET dots == {i \in 1 .. Len(s) : SubSeq(s, i, i) = "."}
    IN  IF dots = {} THEN ""
        ELSE SubSeq(s, CHOOSE i \in dots : \A j \in dots : j <= i, Len(s))

\* strings.TrimSuffix
TrimSuffix(s, suffix) ==
    IF suffix # "" /\ Len(s) >= Len(suffix)
       /\ SubSeq(s, Len(s) - Len(suffix) + 1, Len(s)) = suffix
    THEN SubSeq(s, 1, Len(s) - Len(suffix)) ELSE s

\* uploadFile: the name tried at the given turn of the loop, the original name
\* first and then name_1.ext, name_2.ext, ...
UploadName(original, counter) ==
    IF counter = 0 THEN original
    ELSE TrimSuffix(original, Ext(original)) \o "_" \o ToString(counter) \o Ext(original)

\* uploadFile: the loop over os.Stat, ending at the first name that is not there
FreeName(original) ==
    UploadName(original,
               CHOOSE n \in 0 .. Cardinality(disk) :
                  /\ UploadName(original, n) \notin disk
                  /\ \A m \in 0 .. (n - 1) : UploadName(original, m) \in disk)

\* isValidImageType
isValidImageType(contentType) ==
    contentType \in {"image/jpeg", "image/jpg", "image/png", "image/gif", "image/webp"}

\* the bytes a connection uploads
Data(c) == "data" \o ToString(c)

\* uploadFile returning: nil, or the error, to HandleImageUpload
Uploaded(c, job, ok) == [uploads EXCEPT ![c] = [job EXCEPT !.pc = "done", !.ok = ok]]

uploadFrame == <<keyVars, settings, api_requests, regen, settingsJob, req, adminResp,
                 requireHist, sessionVars>>

\* uploadFile: the content type, and the choice of the name
uploadFile_Stat(c, original, contentType) ==
    LET job == [pc |-> "create", ok |-> FALSE, original |-> original,
                filename |-> FreeName(original), contentType |-> contentType,
                data |-> Data(c)]
    IN  /\ uploads[c].pc \in {"idle", "done"}
        /\ uploads' = IF ~isValidImageType(contentType)
                      THEN Uploaded(c, [job EXCEPT !.filename = original], FALSE)
                      ELSE [uploads EXCEPT ![c] = job]
        /\ UNCHANGED <<uploadFrame, image_files, disk, fileData>>

\* uploadFile: os.Create, which makes the file or empties the one that is there
uploadFile_Create(c, createOK) ==
    LET job == uploads[c]
    IN  /\ job.pc = "create"
        /\ UNCHANGED <<uploadFrame, image_files>>
        /\ IF ~createOK
           THEN /\ uploads' = Uploaded(c, job, FALSE)
                /\ UNCHANGED <<disk, fileData>>
           ELSE /\ disk' = disk \cup {job.filename}
                /\ fileData' = [f \in disk' |-> IF f = job.filename THEN ""
                                                 ELSE fileData[f]]
                /\ uploads' = [uploads EXCEPT ![c].pc = "copy"]

\* uploadFile: io.Copy, and os.Remove when it fails
uploadFile_Copy(c, copyOK) ==
    LET job == uploads[c]
    IN  /\ job.pc = "copy"
        /\ UNCHANGED <<uploadFrame, image_files>>
        /\ IF ~copyOK
           THEN /\ disk' = disk \ {job.filename}
                /\ fileData' = [f \in disk' |-> fileData[f]]
                /\ uploads' = Uploaded(c, job, FALSE)
           ELSE /\ disk' = disk \cup {job.filename}
                /\ fileData' = [f \in disk' |-> IF f = job.filename THEN job.data
                                                 ELSE fileData[f]]
                /\ uploads' = [uploads EXCEPT ![c].pc = "save"]

\* uploadFile: dst.Stat, CreateImageFile (filename is UNIQUE) and os.Remove when
\* the insert fails
uploadFile_Save(c, statOK, execOK) ==
    LET job   == uploads[c]
        taken == \E i \in image_files : i.filename = job.filename
    IN  /\ job.pc = "save"
        /\ UNCHANGED uploadFrame
        /\ IF ~statOK
           THEN /\ uploads' = Uploaded(c, job, FALSE)
                /\ UNCHANGED <<image_files, disk, fileData>>
           ELSE IF ~execOK \/ taken
           THEN /\ disk' = disk \ {job.filename}
                /\ fileData' = [f \in disk' |-> fileData[f]]
                /\ uploads' = Uploaded(c, job, FALSE)
                /\ UNCHANGED image_files
           ELSE /\ image_files' = image_files \cup
                      {[filename |-> job.filename, mime_type |-> job.contentType,
                        enabled |-> TRUE]}
                /\ uploads' = Uploaded(c, job, TRUE)
                /\ UNCHANGED <<disk, fileData>>

\* filepath.Base on a path that does not end in a slash
RECURSIVE Base(_)
Base(s) ==
    IF \E i \in 1 .. Len(s) : SubSeq(s, i, i) = "/"
    THEN Base(SubSeq(s, (CHOOSE i \in 1 .. Len(s) : SubSeq(s, i, i) = "/") + 1, Len(s)))
    ELSE s

-----------------------------------------------------------------------------
(* API-key guard and the public handlers *)

\* the token of RequireAPIKey with the Authorization header taken whole when it
\* has no Bearer prefix
GuardToken_WholeHeader(xApiKey, authorization) ==
    IF xApiKey # "" THEN xApiKey
    ELSE IF HasPrefix(authorization, "Bearer ") THEN TrimPrefix(authorization, "Bearer ")
    ELSE authorization

\* the token RequireAPIKey takes from the headers
GuardToken(xApiKey, authorization) ==
    IF xApiKey # "" THEN xApiKey
    ELSE IF HasPrefix(authorization, "Bearer ") THEN TrimPrefix(authorization, "Bearer ")
    ELSE ""

\* the token the inline check of HandleServeImage takes from the headers
ServeToken(xApiKey, authorization) ==
    IF xApiKey # "" THEN xApiKey
    ELSE IF HasPrefix(authorization, "Bearer ") THEN TrimPrefix(authorization, "Bearer ")
    ELSE authorization

\* setCORSHeaders / HandleOptions: the Access-Control-Allow-Origin header, "" when unset
CorsOrigin(enabledOK, originsOK) ==
    LET e == GetSetting("cors_enabled", enabledOK)
        corsEnabled == IF e.err THEN "true" ELSE e.value
        o == GetSetting("cors_origins", originsOK)
    IN  IF corsEnabled # "true" THEN ""
        ELSE IF o.err \/ o.value = "" THEN "*"
        ELSE o.value

NoBody == [kind |-> "none", images |-> {}, count |-> 0, file |-> "", cors |-> ""]

\* a request as it arrives
NewRequest(route, method, xApiKey, authorization, countStr, filename) ==
    [pc |-> "new", route |-> route, method |-> method, xApiKey |-> xApiKey,
     authorization |-> authorization, countStr |-> countStr, filename |-> filename,
     reads |-> <<>>,        \* history: what each read of require_api_key_for_images met
     lookup |-> "none",     \* how the credential lookup ended: none, error, absent, found
     ctxKey |-> Nil,        \* the key record attached to the request context
     apiKey |-> Nil,        \* HandleRandomImages' local apiKey
     handlerCalls |-> 0,    \* calls made of the wrapped handler
     defaultCount |-> 0, maxCount |-> 0, count |-> 0, images |-> {},
     totalImages |-> 0,     \* HandleRandomImages' local totalImages
     defaultRead |-> Nil,   \* history: what the read of default_image_count met
     maxRead |-> Nil,       \* history: what the read of max_image_count met
     at |-> "",             \* the step at which the response was written
     status |-> 0, body |-> NoBody]

Finish(r, status, body) ==
    [r EXCEPT !.pc = "done", !.at = r.pc, !.status = status, !.body = body]

\* http.Error
HttpError(r, status) == Finish(r, status, [NoBody EXCEPT !.kind = "error"])

\* RequireAPIKey up to the lookup: the headers, and 401 when they carry no token
RequireAPIKey_Enter(r) ==
    IF GuardToken(r.xApiKey, r.authorization) = ""
    THEN HttpError(r, 401)
    ELSE [r EXCEPT !.pc = "validate"]

\* the /api/images route with the guard left out
ImagesRoute_NoGuard(r, queryOK) ==
    LET r1 == [r EXCEPT !.reads = Append(@, Observed(RequireKey, queryOK))]
    IN  IF r.method = "OPTIONS" THEN [r EXCEPT !.pc = "options"]
        ELSE [r1 EXCEPT !.pc = "handler", !.handlerCalls = @ + 1]

\* the /api/images route of main: OPTIONS, or the setting read and the choice of path
ImagesRoute(r, queryOK) ==
    LET g  == GetSetting(RequireKey, queryOK)
        r1 == [r EXCEPT !.reads = Append(@, Observed(RequireKey, queryOK))]
    IN  IF r.method = "OPTIONS" THEN [r EXCEPT !.pc = "options"]
        ELSE IF g.err \/ g.value = "true" THEN RequireAPIKey_Enter(r1)
        ELSE [r1 EXCEPT !.pc = "handler", !.handlerCalls = @ + 1]

reqFrame == <<keyVars, settings, imageVars, api_requests, regen, settingsJob,
              adminResp, sessionVars>>

\* a GET/OPTIONS/POST on /api/images arrives and runs the route function
ImagesRequest(method, xApiKey, authorization, countStr, queryOK) ==
    /\ req.pc \in {"idle", "done"}
    /\ req' = ImagesRoute(NewRequest("images", method, xApiKey, authorization, countStr, ""),
                          queryOK)
    /\ requireHist' = [requireHist EXCEPT !.raced = FALSE]
    /\ UNCHANGED reqFrame

\* HandleOptions
Options(enabledOK, originsOK) ==
    /\ req.pc = "options"
    /\ req' = Finish(req, 200, [NoBody EXCEPT !.cors = CorsOrigin(enabledOK, originsOK)])
    /\ UNCHANGED <<reqFrame, requireHist>>

\* RequireAPIKey: ValidateAPIKey and the answers on error and on absent
GuardValidate(queryOK) ==
    LET k == GetAPIKeyByKey(GuardToken(req.xApiKey, req.authorization), queryOK)
    IN  /\ req.pc = "validate"
        /\ req.route = "images"
        /\ req' = IF k.err THEN HttpError([req EXCEPT !.lookup = "error"], 500)
                  ELSE IF k.key = Nil THEN HttpError([req EXCEPT !.lookup = "absent"], 401)
                  ELSE [req EXCEPT !.pc = "lastUsed", !.lookup = "found", !.ctxKey = k.key]
        /\ UNCHANGED <<reqFrame, requireHist>>

\* RequireAPIKey answering 500 when UpdateAPIKeyLastUsed fails
GuardLastUsed_Fatal(execOK) ==
    /\ req.pc = "lastUsed"
    /\ req.route = "images"
    /\ api_keys' = IF execOK THEN UpdateAPIKeyLastUsed(req.ctxKey.id) ELSE api_keys
    /\ req' = IF execOK THEN [req EXCEPT !.pc = "handler", !.handlerCalls = @ + 1]
              ELSE HttpError(req, 500)
    /\ UNCHANGED <<keySeq, randSeq, issued, settings, imageVars, api_requests, regen,
                   settingsJob, adminResp, requireHist, sessionVars>>

\* RequireAPIKey: UpdateAPIKeyLastUsed (its failure only logged), then next.ServeHTTP
GuardLastUsed(execOK) ==
    /\ req.pc = "lastUsed"
    /\ req.route = "images"
    /\ api_keys' = IF execOK THEN UpdateAPIKeyLastUsed(req.ctxKey.id) ELSE api_keys
    /\ req' = [req EXCEPT !.pc = "handler", !.handlerCalls = @ + 1]
    /\ UNCHANGED <<keySeq, randSeq, issued, settings, imageVars, api_requests, regen,
                   settingsJob, adminResp, requireHist, sessionVars>>

\* HandleRandomImages: the method, the setting read again, the key from the context
RandomImages_Enter(queryOK) ==
    LET g == GetSetting(RequireKey, queryOK)
        requireAPIKey == IF g.err THEN "true" ELSE g.value
        r1 == [req EXCEPT !.reads = Append(@, Observed(RequireKey, queryOK))]
    IN  /\ req.pc = "handler"
        /\ req' = IF req.method # "GET" THEN HttpError(req, 405)
                  ELSE IF requireAPIKey = "true" /\ req.ctxKey = Nil THEN HttpError(r1, 401)
                  ELSE IF requireAPIKey = "true"
                  THEN [r1 EXCEPT !.pc = "default", !.apiKey = req.ctxKey]
                  ELSE [r1 EXCEPT !.pc = "default"]
        /\ UNCHANGED <<reqFrame, requireHist>>

\* HandleRandomImages: default_image_count, "20" when unreadable or empty
RandomImages_Default(queryOK) ==
    LET g == GetSetting("default_image_count", queryOK)
        defaultCountStr == IF g.err \/ g.value = "" THEN "20" ELSE g.value
    IN  /\ req.pc = "default"
        /\ req' = [req EXCEPT !.pc = "max", !.defaultCount = Atoi(defaultCountStr).val,
                              !.defaultRead = Observed("default_image_count", queryOK)]
        /\ UNCHANGED <<reqFrame, requireHist>>

\* HandleRandomImages with a count parameter that does not parse, or is not
\* positive, replaced by the default
RandomImages_Max_Lenient(queryOK) ==
    LET g == GetSetting("max_image_count", queryOK)
        maxCountStr == IF g.err \/ g.value = "" THEN "100" ELSE g.value
        maxCount == Atoi(maxCountStr).val
        parsed == Atoi(req.countStr)
        count == IF req.countStr # "" /\ parsed.ok /\ parsed.val > 0
                 THEN parsed.val ELSE req.defaultCount
        r0 == [req EXCEPT !.maxRead = Observed("max_image_count", queryOK)]
        r1 == [r0 EXCEPT !.maxCount = maxCount, !.count = count]
    IN  /\ req.pc = "max"
        /\ req' = IF count > maxCount THEN HttpError(r1, 400)
                  ELSE [r1 EXCEPT !.pc = "total"]
        /\ UNCHANGED <<reqFrame, requireHist>>

\* HandleRandomImages: max_image_count, the count parameter, and the check against the maximum
RandomImages_Max(queryOK) ==
    LET g == GetSetting("max_image_count", queryOK)
        maxCountStr == IF g.err \/ g.value = "" THEN "100" ELSE g.value
        maxCount == Atoi(maxCountStr).val
        parsed == Atoi(req.countStr)
        count == IF req.countStr # "" THEN parsed.val ELSE req.defaultCount
        r0 == [req EXCEPT !.maxRead = Observed("max_image_count", queryOK)]
        r1 == [r0 EXCEPT !.maxCount = maxCount, !.count = count]
    IN  /\ req.pc = "max"
        /\ req' = IF req.countStr # "" /\ (~parsed.ok \/ parsed.val <= 0)
                  THEN HttpError([r0 EXCEPT !.maxCount = maxCount], 400)
                  ELSE IF count > maxCount THEN HttpError(r1, 400)
                  ELSE [r1 EXCEPT !.pc = "total"]
        /\ UNCHANGED <<reqFrame, requireHist>>

\* HandleRandomImages: GetImageFileCount and the check against the enabled images
RandomImages_Total(queryOK) ==
    /\ req.pc = "total"
    /\ req' = IF ~queryOK THEN HttpError(req, 500)
              ELSE IF req.count > GetImageFileCount
              THEN HttpError([req EXCEPT !.totalImages = GetImageFileCount], 400)
              ELSE [req EXCEPT !.pc = "random", !.totalImages = GetImageFileCount]
    /\ UNCHANGED <<reqFrame, requireHist>>

\* HandleRandomImages: GetRandomImageFiles
RandomImages_Pick(queryOK) ==
    /\ req.pc = "random"
    /\ \/ /\ ~queryOK
          /\ req' = HttpError(req, 500)
       \/ /\ queryOK
          /\ \E pick \in GetRandomImageFiles(req.count) :
                req' = [req EXCEPT !.pc = "log", !.images = {i.filename : i \in pick}]
    /\ UNCHANGED <<reqFrame, requireHist>>

\* HandleRandomImages: LogAPIRequest when a key was used (its failure only logged),
\* the CORS headers and the JSON body
RandomImages_Respond(execOK, enabledOK, originsOK) ==
    /\ req.pc = "log"
    /\ api_requests' =
          IF req.apiKey # Nil /\ execOK
          THEN Append(api_requests, [api_key_id |-> req.apiKey.id,
                                     image_count |-> Cardinality(req.images)])
          ELSE api_requests
    /\ req' = Finish(req, 200, [kind |-> "images", images |-> req.images,
                                count |-> Cardinality(req.images), file |-> "",
                                cors |-> CorsOrigin(enabledOK, originsOK)])
    /\ UNCHANGED <<keyVars, settings, imageVars, regen, settingsJob, adminResp,
                   requireHist, sessionVars>>

\* HandleServeImage with the check of the setting and of the key left out, as the
\* README describes the endpoint
ServeRoute_Open(r, queryOK) ==
    LET r1 == [r EXCEPT !.reads = Append(@, Observed(RequireKey, queryOK))]
    IN  IF r.method = "OPTIONS" THEN [r EXCEPT !.pc = "options"]
        ELSE IF r.method # "GET" THEN HttpError(r, 405)
        ELSE [r1 EXCEPT !.pc = "find"]

\* the /api/images/ route of main and HandleServeImage up to the credential lookup
ServeRoute(r, queryOK) ==
    LET g  == GetSetting(RequireKey, queryOK)
        requireAPIKey == IF g.err THEN "true" ELSE g.value
        r1 == [r EXCEPT !.reads = Append(@, Observed(RequireKey, queryOK))]
    IN  IF r.method = "OPTIONS" THEN [r EXCEPT !.pc = "options"]
        ELSE IF r.method # "GET" THEN HttpError(r, 405)
        ELSE IF requireAPIKey # "true" THEN [r1 EXCEPT !.pc = "find"]
        ELSE IF ServeToken(r.xApiKey, r.authorization) = "" THEN HttpError(r1, 401)
        ELSE [r1 EXCEPT !.pc = "validate"]

\* a request on /api/images/{filename} arrives
ServeRequest(method, xApiKey, authorization, filename, queryOK) ==
    /\ req.pc \in {"idle", "done"}
    /\ req' = ServeRoute(NewRequest("serve", method, xApiKey, authorization, "", filename),
                         queryOK)
    /\ requireHist' = [requireHist EXCEPT !.raced = FALSE]
    /\ UNCHANGED reqFrame

\* HandleServeImage: GetAPIKeyByKey, 401 on error and on absent alike
ServeValidate(queryOK) ==
    LET k == GetAPIKeyByKey(ServeToken(req.xApiKey, req.authorization), queryOK)
    IN  /\ req.pc = "validate"
        /\ req.route = "serve"
        /\ req' = IF k.err THEN HttpError([req EXCEPT !.lookup = "error"], 401)
                  ELSE IF k.key = Nil THEN HttpError([req EXCEPT !.lookup = "absent"], 401)
                  ELSE [req EXCEPT !.pc = "lastUsed", !.lookup = "found", !.apiKey = k.key]
        /\ UNCHANGED <<reqFrame, requireHist>>

\* HandleServeImage: UpdateAPIKeyLastUsed, its failure only logged
ServeLastUsed(execOK) ==
    /\ req.pc = "lastUsed"
    /\ req.route = "serve"
    /\ api_keys' = IF execOK THEN UpdateAPIKeyLastUsed(req.apiKey.id) ELSE api_keys
    /\ req' = [req EXCEPT !.pc = "find"]
    /\ UNCHANGED <<keySeq, randSeq, issued, settings, imageVars, api_requests, regen,
                   settingsJob, adminResp, requireHist, sessionVars>>

\* HandleServeImage looking only for the row, not at its enabled flag
ServeFind_AnyRow(queryOK, enabledOK, originsOK) ==
    LET filename == Base(req.filename)
        found    == {i \in image_files : i.filename = filename}
    IN  /\ req.pc = "find"
        /\ req' = IF req.filename = "" THEN HttpError(req, 404)
                  ELSE IF ~queryOK THEN HttpError(req, 500)
                  ELSE IF found = {} THEN HttpError(req, 404)
                  ELSE IF filename \notin disk THEN HttpError(req, 404)
                  ELSE Finish(req, 200, [kind |-> "file", images |-> {}, count |-> 0,
                                         file |-> filename,
                                         cors |-> CorsOrigin(enabledOK, originsOK)])
        /\ UNCHANGED <<reqFrame, requireHist>>

\* HandleServeImage: the filename, the row and its enabled flag, the file, the answer
ServeFind(queryOK, enabledOK, originsOK) ==
    LET filename == Base(req.filename)
        found    == {i \in image_files : i.filename = filename}
    IN  /\ req.pc = "find"
        /\ req' = IF req.filename = "" THEN HttpError(req, 404)
                  ELSE IF ~queryOK THEN HttpError(req, 500)
                  ELSE IF found = {} \/ \E i \in found : ~i.enabled THEN HttpError(req, 404)
                  ELSE IF filename \notin disk THEN HttpError(req, 404)
                  ELSE Finish(req, 200, [kind |-> "file", images |-> {}, count |-> 0,
                                         file |-> filename,
                                         cors |-> CorsOrigin(enabledOK, originsOK)])
        /\ UNCHANGED <<reqFrame, requireHist>>

-----------------------------------------------------------------------------
(* Session manager *)

HexDigits == {"0", "1", "2", "3", "4", "5", "6", "7", "8", "9", "a", "b", "c", "d", "e", "f"}

\* []byte(s): one byte per character
Bytes(s) == [i \in 1 .. Len(s) |-> SubSeq(s, i, i)]

\* hex.DecodeString succeeds on s (s of even length)
IsHex(s) == \A i \in 1 .. Len(s) : SubSeq(s, i, i) \in HexDigits

\* hex.DecodeString: one byte per pair of digits, written "#hh"
HexDecode(s) == [i \in 1 .. (Len(s) \div 2) |-> "#" \o SubSeq(s, 2 * i - 1, 2 * i)]

\* NewAuthService handing over the bytes of the secret as they are
NewAuthServiceKey_AsIs(sessionSecret) ==
    IF Len(sessionSecret) % 2 = 0 /\ Len(sessionSecret) >= 32 /\ IsHex(sessionSecret)
    THEN HexDecode(sessionSecret)
    ELSE Bytes(sessionSecret)

\* the key NewAuthService hands to sessions.NewCookieStore
NewAuthServiceKey(sessionSecret) ==
    LET keyBytes ==
            IF Len(sessionSecret) % 2 = 0 /\ Len(sessionSecret) >= 32 /\ IsHex(sessionSecret)
            THEN HexDecode(sessionSecret)
            ELSE Bytes(sessionSecret)
    IN  IF Len(keyBytes) > 32 THEN SubSeq(keyBytes, 1, 32)
        ELSE IF Len(keyBytes) < 32
        THEN keyBytes \o [i \in 1 .. (32 - Len(keyBytes)) |-> "#00"]
        ELSE keyBytes

\* loadConfig: SESSION_SECRET, or the hex of the n-th 32 bytes drawn from crypto/rand
RandomSecret(n) ==
    "00000000000000000000000000000000000000000000000000000000000000a" \o ToString(n)
LoadSessionSecret(env, n) == IF env = "" THEN RandomSecret(n) ELSE env

NoCookie   == [present |-> FALSE]
NoValues   == [user_id |-> Nil, username |-> Nil]
\* a cookie value: the key it was signed with, the payload, whether the signature
\* and encoding are intact, and whether its timestamp is past the codec's limit
Cookie(key, values) ==
    [present |-> TRUE, key |-> key, values |-> values, intact |-> TRUE, expired |-> FALSE]

\* store.Get of the cookie store: a new empty session when the request has no
\* cookie; the decoded values; the new session and an error when decoding fails
SessionGet(c) ==
    IF ~c.present THEN [err |-> FALSE, values |-> NoValues]
    ELSE IF ~c.intact \/ c.expired \/ c.key # storeKey THEN [err |-> TRUE, values |-> NoValues]
    ELSE [err |-> FALSE, values |-> c.values]

\* AuthService.SetAdminSession with the username left out of the session values
SetAdminSession_IdOnly(c, user) ==
    LET session == SessionGet(c)
    IN  IF session.err THEN [err |-> TRUE, cookie |-> NoCookie]
        ELSE [err |-> FALSE,
              cookie |-> Cookie(storeKey, [user_id  |-> [int |-> user.id],
                                           username |-> Nil])]

\* AuthService.SetAdminSession: the error, or the cookie the response sets
SetAdminSession(c, user) ==
    LET session == SessionGet(c)
    IN  IF session.err THEN [err |-> TRUE, cookie |-> NoCookie]
        ELSE [err |-> FALSE,
              cookie |-> Cookie(storeKey, [user_id  |-> [int |-> user.id],
                                           username |-> [string |-> user.username]])]

\* AuthService.ClearAdminSession: the error, or the emptied value and the Max-Age
\* of the cookie the response sets
ClearAdminSession(c) ==
    LET session == SessionGet(c)
    IN  IF session.err THEN [err |-> TRUE, cookie |-> NoCookie, maxAge |-> 0]
        ELSE [err |-> FALSE, cookie |-> Cookie(storeKey, NoValues), maxAge |-> -1]

\* AuthService.GetAdminFromSession
GetAdminFromSession(c) ==
    LET session == SessionGet(c)
    IN  IF session.err THEN [err |-> TRUE, user |-> Nil]
        ELSE IF "int" \notin DOMAIN session.values.user_id THEN [err |-> FALSE, user |-> Nil]
        ELSE IF "string" \notin DOMAIN session.values.username
        THEN [err |-> FALSE, user |-> Nil]
        ELSE [err |-> FALSE,
              user |-> [id |-> session.values.user_id.int,
                        username |-> session.values.username.string]]

\* bcrypt.GenerateFromPassword / CompareHashAndPassword
BcryptHash(password) == "bcrypt:" \o password
BcryptMatches(hash, password) == hash = BcryptHash(password)

\* LoginAdmin returning the error of the bcrypt comparison for a wrong password
LoginAdmin_WrongPasswordErr(username, password, queryOK) ==
    LET rows == {u \in admin_users : u.username = username}
    IN  IF ~queryOK THEN [err |-> TRUE, user |-> Nil]
        ELSE IF rows = {} THEN [err |-> FALSE, user |-> Nil]
        ELSE LET user == CHOOSE u \in rows : TRUE
             IN  IF ~BcryptMatches(user.password_hash, password)
                 THEN [err |-> TRUE, user |-> Nil]
                 ELSE [err |-> FALSE, user |-> user]

\* AuthService.LoginAdmin
LoginAdmin(username, password, queryOK) ==
    LET rows == {u \in admin_users : u.username = username}
    IN  IF ~queryOK THEN [err |-> TRUE, user |-> Nil]
        ELSE IF rows = {} THEN [err |-> FALSE, user |-> Nil]
        ELSE LET user == CHOOSE u \in rows : TRUE
             IN  IF ~BcryptMatches(user.password_hash, password)
                 THEN [err |-> FALSE, user |-> Nil]
                 ELSE [err |-> FALSE, user |-> user]

-----------------------------------------------------------------------------
(* Admin-side requests: setup, login, logout, and a page behind the admin guard *)

Conns == 1 .. NumConns

\* the outcome of a browser-side event: the cookie the request carried, the
\* answer, the identity involved, and the calls made of the wrapped handler
Web(handler, cookie, code, target, msg, user, handlerCalls, credsOK) ==
    [handler |-> handler, cookie |-> cookie, code |-> code, target |-> target,
     msg |-> msg, user |-> user, handlerCalls |-> handlerCalls, credsOK |-> credsOK,
     form |-> <<"", "">>, answered |-> FALSE]

NoWeb == Web("", NoCookie, 0, "", "", Nil, 0, FALSE)

webFrame == <<keyVars, settings, imageVars, api_requests, regen, settingsJob, req,
              adminResp, requireHist>>

\* HandleSetup up to CreateAdminUser: HasAdminUsers, the page, the validation
SetupCheck(c, method, username, password, confirmPassword, queryOK) ==
    LET out(code, target, msg) == Web("setup", jar, code, target, msg, Nil, 0, FALSE)
        error == IF username = "" \/ password = ""
                 THEN "Username and password are required"
                 ELSE IF Len(username) < 3 THEN "Username must be at least 3 characters"
                 ELSE IF Len(password) < 6 THEN "Password must be at least 6 characters"
                 ELSE IF password # confirmPassword THEN "Passwords do not match"
                 ELSE ""
    IN  /\ setup[c] = Idle
        /\ UNCHANGED <<webFrame, storeKey, boots, admin_users, adminSeq, jar, kept>>
        /\ IF ~queryOK
           THEN /\ web' = out(500, "", "Internal server error")
                /\ UNCHANGED setup
           ELSE IF admin_users # {}
           THEN /\ web' = out(303, "/admin/login", "")
                /\ UNCHANGED setup
           ELSE IF method # "POST"
           THEN /\ web' = out(200, "setup.html", "")
                /\ UNCHANGED setup
           ELSE IF error # ""
           THEN /\ web' = out(200, "setup.html", error)
                /\ UNCHANGED setup
           ELSE /\ setup' = [setup EXCEPT ![c] = [pc |-> "create", username |-> username,
                                                  password |-> password]]
                /\ UNCHANGED web

\* HandleSetup: CreateAdminUser (username is UNIQUE) and the answer
SetupCreate(c, execOK) ==
    LET taken == \E u \in admin_users : u.username = setup[c].username
        out(code, target, msg) == Web("setup", jar, code, target, msg, Nil, 0, FALSE)
    IN  /\ setup[c].pc = "create"
        /\ setup' = [setup EXCEPT ![c] = Idle]
        /\ UNCHANGED <<webFrame, storeKey, boots, jar, kept>>
        /\ IF ~execOK \/ taken
           THEN /\ web' = out(200, "setup.html", "Failed to create admin user")
                /\ UNCHANGED <<admin_users, adminSeq>>
           ELSE /\ admin_users' = admin_users \cup
                      {[id |-> adminSeq + 1, username |-> setup[c].username,
                        password_hash |-> BcryptHash(setup[c].password)]}
                /\ adminSeq' = adminSeq + 1
                /\ web' = out(303, "/admin/login", "success=Admin account created successfully")

\* HandleLogin, the browser sending the cookie it holds
HandleLogin(method, username, password, queryOK) ==
    LET l == LoginAdmin(username, password, queryOK)
        s == SetAdminSession(jar, l.user)
        credsOK == \E u \in admin_users :
                      u.username = username /\ BcryptMatches(u.password_hash, password)
        posted(w) == [w EXCEPT !.form = <<username, password>>, !.answered = queryOK]
        page(msg) == posted(Web("login", jar, 200, "login.html", msg, Nil, 0,
                                credsOK /\ queryOK))
    IN  /\ UNCHANGED <<webFrame, storeKey, boots, admin_users, adminSeq, setup>>
        /\ IF method # "POST"
           THEN /\ web' = Web("login", jar, 200, "login.html", "", Nil, 0, FALSE)
                /\ UNCHANGED <<jar, kept>>
           ELSE IF username = "" \/ password = ""
           THEN /\ web' = page("Username and password are required")
                /\ UNCHANGED <<jar, kept>>
           ELSE IF l.err
           THEN /\ web' = page("Login failed")
                /\ UNCHANGED <<jar, kept>>
           ELSE IF l.user = Nil
           THEN /\ web' = page("Invalid username or password")
                /\ UNCHANGED <<jar, kept>>
           ELSE IF s.err
           THEN /\ web' = page("Login failed")
                /\ UNCHANGED <<jar, kept>>
           ELSE /\ web' = posted(Web("login", jar, 303, "/admin", "",
                                     [id |-> l.user.id, username |-> l.user.username],
                                     0, TRUE))
                /\ jar' = s.cookie
                /\ UNCHANGED kept

\* HandleLogout, the browser sending the cookie it holds: Max-Age -1 makes the
\* browser drop its cookie
HandleLogout ==
    LET s == ClearAdminSession(jar)
    IN  /\ UNCHANGED <<webFrame, storeKey, boots, admin_users, adminSeq, setup, kept>>
        /\ web' = Web("logout", jar, 303, "/admin/login",
                      IF s.err THEN "not cleared" ELSE "cleared", Nil, 0, FALSE)
        /\ jar' = IF s.err THEN jar
                  ELSE IF s.maxAge < 0 THEN NoCookie
                  ELSE s.cookie

\* RequireAdminAuth with a session error let through to the handler
RequireAdminAuth_ErrPasses(c) ==
    LET g == GetAdminFromSession(c)
    IN  IF ~g.err /\ g.user = Nil
        THEN Web("page", c, 303, "/admin/login", "", Nil, 0, FALSE)
        ELSE Web("page", c, 200, "", "", g.user, 1, FALSE)

\* RequireAdminAuth around a handler that answers 200
RequireAdminAuth(c) ==
    LET g == GetAdminFromSession(c)
    IN  IF g.err THEN Web("page", c, 303, "/admin/login", "", Nil, 0, FALSE)
        ELSE IF g.user = Nil THEN Web("page", c, 303, "/admin/login", "", Nil, 0, FALSE)
        ELSE Web("page", c, 200, "", "", g.user, 1, FALSE)

\* a request on a protected admin route, carrying cookie c
AdminRequest(c) ==
    /\ web' = RequireAdminAuth(c)
    /\ UNCHANGED <<webFrame, storeKey, boots, admin_users, adminSeq, setup, jar, kept>>

\* the client side: the held cookie outlives the codec's age limit, is altered, is
\* dropped by the browser when its Max-Age has passed, or is copied and retained
\* (a cookie that no longer verifies is only dropped)
ClientCookie(how) ==
    /\ jar.present
    /\ how # "drop" => jar.intact /\ ~jar.expired
    /\ jar' = CASE how = "expire" -> [jar EXCEPT !.expired = TRUE]
                [] how = "alter"  -> [jar EXCEPT !.intact = FALSE]
                [] how = "drop"   -> NoCookie
                [] how = "keep"   -> jar
    /\ kept' = IF how = "keep" THEN jar ELSE kept
    /\ web' = Web("client", jar, 0, "", how, Nil, 0, FALSE)
    /\ UNCHANGED <<webFrame, storeKey, boots, admin_users, adminSeq, setup>>

\* the process is started again: loadConfig and NewAuthService; calls in flight end
Restart(env) ==
    /\ env = "" => boots < MaxBoots
    /\ boots' = IF env = "" THEN boots + 1 ELSE boots
    /\ storeKey' = NewAuthServiceKey(LoadSessionSecret(env, boots + 1))
    /\ setup' = [c \in Conns |-> Idle]
    /\ regen' = Idle
    /\ settingsJob' = Idle
    /\ req' = Idle
    /\ uploads' = [c \in Conns |-> Idle]
    /\ web' = Web("restart", jar, 0, "", "", Nil, 0, FALSE)
    /\ UNCHANGED <<keyVars, settings, image_files, disk, fileData, api_requests, adminResp,
                   requireHist, admin_users, adminSeq, jar, kept>>

-----------------------------------------------------------------------------
(* Specifications *)

Bool == {TRUE, FALSE}

SecretEnvs == {"", "s3cret"}

\* a fresh installation: NewDB has seeded the settings, nothing else is stored
Init ==
    /\ api_keys = {}
    /\ keySeq = 0
    /\ randSeq = 0
    /\ settings = DefaultSettings
    /\ image_files = {}
    /\ disk = {}
    /\ fileData = [f \in disk |-> "seed"]
    /\ uploads = [c \in 1 .. NumConns |-> Idle]
    /\ api_requests = <<>>
    /\ regen = Idle
    /\ settingsJob = Idle
    /\ req = Idle
    /\ adminResp = NoResp
    /\ issued = {}
    /\ requireHist = [by |-> "seed", raced |-> FALSE]
    /\ \E env \in SecretEnvs : storeKey = NewAuthServiceKey(LoadSessionSecret(env, 0))
    /\ boots = 0
    /\ admin_users = {}
    /\ adminSeq = 0
    /\ setup = [c \in Conns |-> Idle]
    /\ jar = NoCookie
    /\ kept = NoCookie
    /\ web = NoWeb

\* the calls of HandleNewAPIKey: the method, the name, whether crypto/rand and the
\* INSERT answer (a GET and a refused name reach neither)
NewKeyCalls ==
    {<<"GET", "", TRUE, TRUE>>}
    \cup {<<"POST", n, TRUE, TRUE>> : n \in FormNames}
    \cup {<<"POST", "app", r, e>> : r \in Bool, e \in Bool}

\* the calls of a handler taking key_id: the method, the id, whether the store
\* answers (a GET and a refused id do not reach the store)
KeyIDCalls ==
    {<<"GET", "1", TRUE>>}
    \cup {<<"POST", id, TRUE>> : id \in FormKeyIDs}
    \cup {<<"POST", id, FALSE>> : id \in FormKeyIDs \ {"abc"}}

\* API-key management by a logged-in admin
NextKeys ==
    \/ \E c \in NewKeyCalls : HandleNewAPIKey(c[1], c[2], c[3], c[4])
    \/ \E c \in KeyIDCalls, en \in FormEnabled : HandleToggleAPIKey(c[1], c[2], en, c[3])
    \/ \E c \in KeyIDCalls : HandleDeleteAPIKey(c[1], c[2], c[3])
    \/ \E c \in KeyIDCalls : RegenerateLookup(c[1], c[2], c[3])
    \/ \E e \in Bool : RegenerateDelete(e)
    \/ \E r \in Bool, e \in Bool : RegenerateCreate(r, e)

SpecKeys == Init /\ [][NextKeys]_vars

\* an installation in use: one API key issued, and three uploaded images of which
\* one is disabled and one has lost its file
InUse ==
    /\ api_keys = {[id |-> 1, key_hash |-> SHA256Hex(RawKey(1)), name |-> "app",
                    enabled |-> TRUE, last_used |-> FALSE]}
    /\ keySeq = 1
    /\ randSeq = 1
    /\ issued = {[raw |-> RawKey(1), id |-> 1, name |-> "app", shown |-> 1]}
    /\ settings = DefaultSettings
    /\ image_files = {[filename |-> "a.jpg", mime_type |-> "image/jpeg", enabled |-> TRUE],
                      [filename |-> "b.jpg", mime_type |-> "image/jpeg", enabled |-> FALSE],
                      [filename |-> "c.png", mime_type |-> "image/png", enabled |-> TRUE]}
    /\ disk = {"a.jpg", "b.jpg"}
    /\ fileData = [f \in disk |-> "seed"]
    /\ uploads = [c \in 1 .. NumConns |-> Idle]
    /\ api_requests = <<>>
    /\ regen = Idle
    /\ settingsJob = Idle
    /\ req = Idle
    /\ adminResp = NoResp
    /\ requireHist = [by |-> "seed", raced |-> FALSE]
    /\ storeKey = NewAuthServiceKey("s3cret")
    /\ boots = 0
    /\ admin_users = {[id |-> 1, username |-> "admin", password_hash |-> BcryptHash("secret1")]}
    /\ adminSeq = 1
    /\ setup = [c \in Conns |-> Idle]
    /\ jar = NoCookie
    /\ kept = NoCookie
    /\ web = NoWeb

\* the requests of a client: the method, X-API-Key, Authorization
ApiForms ==
    {<<"GET", "", "">>, <<"GET", RawKey(1), "">>, <<"GET", "bad", "">>,
     <<"GET", "", "Bearer " \o RawKey(1)>>, <<"GET", "", RawKey(1)>>,
     <<"GET", "", "Basic abc">>, <<"GET", "bad", "Bearer " \o RawKey(1)>>,
     <<"OPTIONS", "", "">>, <<"POST", RawKey(1), "">>}

\* the steps of a request on /api/images once it has arrived
ListSteps ==
    \/ \E e \in Bool, o \in Bool : Options(e, o)
    \/ \E q \in Bool : GuardValidate(q)
    \/ \E e \in Bool : GuardLastUsed(e)
    \/ \E q \in Bool : RandomImages_Enter(q)
    \/ \E q \in Bool : RandomImages_Default(q)
    \/ \E q \in Bool : RandomImages_Max(q)
    \/ \E q \in Bool : RandomImages_Total(q)
    \/ \E q \in Bool : RandomImages_Pick(q)
    \/ \E e \in Bool, c \in Bool, o \in Bool : RandomImages_Respond(e, c, o)

\* the admin disabling, enabling and deleting the issued key
KeyPolicy ==
    \/ \E en \in {"true", "false"} : HandleToggleAPIKey("POST", "1", en, TRUE)
    \/ HandleDeleteAPIKey("POST", "1", TRUE)

\* one of the orders in which the loop of HandleSettings can visit its map
SaveOrder ==
    <<"cors_enabled", "default_image_count", RequireKey, "cors_origins", "max_image_count">>

\* the admin switching require_api_key_for_images on and off, the loop of the
\* handler visiting the keys in SaveOrder
SettingsPolicy ==
    \/ \E on \in {"on", ""} : SettingsSubmit("POST", on, "", "", "on", "")
    \/ \E i \in DOMAIN SaveOrder :
          /\ settingsJob.pc = "save"
          /\ \A j \in 1 .. (i - 1) : SaveOrder[j] \notin settingsJob.left
          /\ SettingsSave(SaveOrder[i], TRUE)

\* the count parameter of a request: absent, a count, not a number, zero, negative
CountParams == {"", "1", "abc", "0", "-1"}

\* the API-key guard on /api/images, every header form, against changes of the key
NextGuard ==
    \/ KeyPolicy
    \/ \E f \in ApiForms, c \in CountParams, q \in Bool :
          /\ Len(api_requests) < MaxLogRows
          /\ ImagesRequest(f[1], f[2], f[3], c, q)
    \/ ListSteps

SpecGuard == InUse /\ [][NextGuard]_vars

\* the admin changing default_image_count and max_image_count together, the loop
\* of the handler visiting the keys in SaveOrder
CountSettings ==
    \/ \E f \in {<<"1", "1">>, <<"2", "2">>} :
          SettingsSubmit("POST", "on", f[1], f[2], "on", "")
    \/ \E i \in DOMAIN SaveOrder :
          /\ settingsJob.pc = "save"
          /\ \A j \in 1 .. (i - 1) : SaveOrder[j] \notin settingsJob.left
          /\ SettingsSave(SaveOrder[i], TRUE)

\* the admin disabling and enabling a.jpg and deleting c.png
ImagePolicy ==
    \/ \E en \in {"true", "false"} : HandleToggleImage("POST", "a.jpg", en, TRUE)
    \/ HandleImageDelete("POST", "c.png", TRUE, TRUE)

\* the steps of an authorised request on /api/images, the reads of the two counts
\* answering or not
CountSteps ==
    \/ GuardValidate(TRUE)
    \/ GuardLastUsed(TRUE)
    \/ RandomImages_Enter(TRUE)
    \/ \E q \in Bool : RandomImages_Default(q)
    \/ \E q \in Bool : RandomImages_Max(q)
    \/ RandomImages_Total(TRUE)
    \/ RandomImages_Pick(TRUE)
    \/ RandomImages_Respond(TRUE, TRUE, TRUE)

\* authorised GET /api/images against the admin changing the counts and the images
NextCount ==
    \/ CountSettings
    \/ ImagePolicy
    \/ \E c \in {"", "3"} :
          /\ Len(api_requests) < MaxLogRows
          /\ ImagesRequest("GET", RawKey(1), "", c, TRUE)
    \/ CountSteps

SpecCount == InUse /\ [][NextCount]_vars

\* the admin enabling and disabling images under authorised requests for the list
\* and for single files
ImageToggles ==
    \E f \in {"a.jpg", "b.jpg"}, en \in {"true", "false"}, e \in Bool :
        HandleToggleImage("POST", f, en, e)

ImageSteps ==
    \/ GuardValidate(TRUE)
    \/ \E e \in Bool : GuardLastUsed(e)
    \/ RandomImages_Enter(TRUE)
    \/ RandomImages_Default(TRUE)
    \/ RandomImages_Max(TRUE)
    \/ RandomImages_Total(TRUE)
    \/ RandomImages_Pick(TRUE)
    \/ \E e \in Bool : RandomImages_Respond(e, TRUE, TRUE)
    \/ ServeValidate(TRUE)
    \/ \E e \in Bool : ServeLastUsed(e)
    \/ ServeFind(TRUE, TRUE, TRUE)

NextImages ==
    \/ ImageToggles
    \/ \E c \in {"1", "2", "3"} :
          /\ Len(api_requests) < MaxLogRows
          /\ ImagesRequest("GET", RawKey(1), "", c, TRUE)
    \/ \E f \in {"a.jpg", "b.jpg", "c.png"} : ServeRequest("GET", RawKey(1), "", f, TRUE)
    \/ ImageSteps

SpecImages == InUse /\ [][NextImages]_vars

\* values the five keys can hold that are not the defaults
OtherSettings ==
    [k \in DOMAIN DefaultSettings |->
        CASE k = RequireKey            -> "false"
          [] k = "default_image_count" -> "7"
          [] k = "max_image_count"     -> "9"
          [] k = "cors_enabled"        -> "false"
          [] k = "cors_origins"        -> "https://a.example"]

\* the stores a start can meet: each key without a row, with an empty value, or
\* with a value
SeedStores ==
    UNION {[ks -> {"", "set"}] : ks \in SUBSET DOMAIN DefaultSettings}

StoreOf(f) == [k \in DOMAIN f |-> IF f[k] = "" THEN "" ELSE OtherSettings[k]]

InitSeed ==
    /\ api_keys = {}
    /\ keySeq = 0
    /\ randSeq = 0
    /\ \E f \in SeedStores : settings = StoreOf(f)
    /\ image_files = {}
    /\ disk = {}
    /\ fileData = [f \in disk |-> "seed"]
    /\ uploads = [c \in 1 .. NumConns |-> Idle]
    /\ api_requests = <<>>
    /\ regen = Idle
    /\ settingsJob = Idle
    /\ req = Idle
    /\ adminResp = NoResp
    /\ issued = {}
    /\ requireHist = [by |-> "seed", raced |-> FALSE]
    /\ storeKey = NewAuthServiceKey("s3cret")
    /\ boots = 0
    /\ admin_users = {}
    /\ adminSeq = 0
    /\ setup = [c \in Conns |-> Idle]
    /\ jar = NoCookie
    /\ kept = NoCookie
    /\ web = NoWeb

NextSeed ==
    \/ InitializeDefaultSettings_Enter
    \/ \E k \in DOMAIN DefaultSettings, q \in Bool, e \in Bool :
          InitializeDefaultSettings(k, q, e)

SpecSeed == InitSeed /\ [][NextSeed]_vars

\* an installation in use whose settings table lacks rows: each key has no row,
\* the default, or another value
AbsentStores ==
    UNION {[ks -> {"default", "other"}] : ks \in SUBSET DOMAIN DefaultSettings}

InitAbsent ==
    /\ api_keys = {[id |-> 1, key_hash |-> SHA256Hex(RawKey(1)), name |-> "app",
                    enabled |-> TRUE, last_used |-> FALSE]}
    /\ keySeq = 1
    /\ randSeq = 1
    /\ issued = {[raw |-> RawKey(1), id |-> 1, name |-> "app", shown |-> 1]}
    /\ \E f \in AbsentStores :
          settings = [k \in DOMAIN f |-> IF f[k] = "default" THEN DefaultSettings[k]
                                         ELSE OtherSettings[k]]
    /\ image_files = {[filename |-> "a.jpg", mime_type |-> "image/jpeg", enabled |-> TRUE],
                      [filename |-> "c.png", mime_type |-> "image/png", enabled |-> TRUE]}
    /\ disk = {"a.jpg", "c.png"}
    /\ fileData = [f \in disk |-> "seed"]
    /\ uploads = [c \in 1 .. NumConns |-> Idle]
    /\ api_requests = <<>>
    /\ regen = Idle
    /\ settingsJob = Idle
    /\ req = Idle
    /\ adminResp = NoResp
    /\ requireHist = [by |-> "seed", raced |-> FALSE]
    /\ storeKey = NewAuthServiceKey("s3cret")
    /\ boots = 0
    /\ admin_users = {[id |-> 1, username |-> "admin", password_hash |-> BcryptHash("secret1")]}
    /\ adminSeq = 1
    /\ setup = [c \in Conns |-> Idle]
    /\ jar = NoCookie
    /\ kept = NoCookie
    /\ web = NoWeb

\* GET /api/images, with and without the key, on such a store
NextAbsent ==
    \/ \E k \in {"", RawKey(1)}, c \in {"", "1"} :
          /\ Len(api_requests) < MaxLogRows
          /\ ImagesRequest("GET", k, "", c, TRUE)
    \/ GuardValidate(TRUE)
    \/ GuardLastUsed(TRUE)
    \/ RandomImages_Enter(TRUE)
    \/ RandomImages_Default(TRUE)
    \/ RandomImages_Max(TRUE)
    \/ RandomImages_Total(TRUE)
    \/ RandomImages_Pick(TRUE)
    \/ RandomImages_Respond(TRUE, TRUE, TRUE)

SpecAbsent == InitAbsent /\ [][NextAbsent]_vars

\* GET /api/images with and without the key, which stays enabled, against the admin
\* switching require_api_key_for_images
RaceForms == {<<"", "">>, <<RawKey(1), "">>, <<"", "Bearer " \o RawKey(1)>>}

RaceSteps ==
    \/ GuardValidate(TRUE)
    \/ GuardLastUsed(TRUE)
    \/ RandomImages_Enter(TRUE)
    \/ RandomImages_Default(TRUE)
    \/ RandomImages_Max(TRUE)
    \/ RandomImages_Total(TRUE)
    \/ RandomImages_Pick(TRUE)
    \/ RandomImages_Respond(TRUE, TRUE, TRUE)

NextRace ==
    \/ SettingsPolicy
    \/ \E f \in RaceForms, c \in {"1", "2"} :
          /\ Len(api_requests) < MaxLogRows
          /\ ImagesRequest("GET", f[1], f[2], c, TRUE)
    \/ RaceSteps

SpecRace == InUse /\ [][NextRace]_vars

\* the images that connections upload: the original name and the content type
UploadForms == {<<"x.jpg", "image/jpeg">>, <<"a.jpg", "image/jpeg">>, <<"x.txt", "text/plain">>}

\* concurrent uploads, as long as the directory holds fewer than MaxFiles files
NextUpload ==
    \/ \E c \in Conns, f \in UploadForms :
          /\ Cardinality(disk) < MaxFiles
          /\ uploadFile_Stat(c, f[1], f[2])
    \/ \E c \in Conns, ok \in Bool : uploadFile_Create(c, ok)
    \/ \E c \in Conns, ok \in Bool : uploadFile_Copy(c, ok)
    \/ \E c \in Conns, st \in Bool, e \in Bool : uploadFile_Save(c, st, e)

SpecUpload == InUse /\ [][NextUpload]_vars

\* values of SESSION_SECRET: unset, short, longer than 32 bytes, 64 hex digits
\* (32 bytes), 34 hex digits (17 bytes)
BootSecrets ==
    {"", "s3cret", "a-secret-that-is-longer-than-32-bytes!!",
     "000102030405060708090a0b0c0d0e0f101112131415161718191a1b1c1d1e1f",
     "000102030405060708090a0b0c0d0e0f10"}

\* the admin logging in and out, cookies retained, and the process started again
\* with these secrets
NextBoot ==
    \/ HandleLogin("POST", "admin", "secret1", TRUE)
    \/ HandleLogout
    \/ \E c \in {jar, kept} : AdminRequest(c)
    \/ \E how \in {"drop", "keep"} : ClientCookie(how)
    \/ \E env \in BootSecrets : Restart(env)

\* an installation with its admin, the process started with any of the secrets
InitBoot ==
    /\ api_keys = {}
    /\ keySeq = 0
    /\ randSeq = 0
    /\ settings = DefaultSettings
    /\ image_files = {}
    /\ disk = {}
    /\ fileData = [f \in disk |-> "seed"]
    /\ uploads = [c \in 1 .. NumConns |-> Idle]
    /\ api_requests = <<>>
    /\ regen = Idle
    /\ settingsJob = Idle
    /\ req = Idle
    /\ adminResp = NoResp
    /\ issued = {}
    /\ requireHist = [by |-> "seed", raced |-> FALSE]
    /\ \E env \in BootSecrets : storeKey = NewAuthServiceKey(LoadSessionSecret(env, 0))
    /\ boots = 0
    /\ admin_users = {[id |-> 1, username |-> "admin", password_hash |-> BcryptHash("secret1")]}
    /\ adminSeq = 1
    /\ setup = [c \in Conns |-> Idle]
    /\ jar = NoCookie
    /\ kept = NoCookie
    /\ web = NoWeb

SpecBoot == InitBoot /\ [][NextBoot]_vars

ListForms ==
    {<<"GET", "", "">>, <<"GET", "bad", "">>, <<"GET", "", "Bearer " \o RawKey(1)>>,
     <<"OPTIONS", "", "">>}

\* GET /api/images against the admin changing the setting and the key
NextList ==
    \/ KeyPolicy
    \/ SettingsPolicy
    \/ \E f \in ListForms, q \in Bool :
          /\ Len(api_requests) < MaxLogRows
          /\ ImagesRequest(f[1], f[2], f[3], "1", q)
    \/ ListSteps

SpecList == InUse /\ [][NextList]_vars

\* requests for a file: the method, X-API-Key, Authorization, the name in the path
ServeForms ==
    {<<"GET", "", "", "a.jpg">>, <<"GET", RawKey(1), "", "a.jpg">>,
     <<"GET", "bad", "", "a.jpg">>, <<"GET", "", "Bearer " \o RawKey(1), "a.jpg">>,
     <<"GET", "", RawKey(1), "a.jpg">>, <<"GET", "", "Basic abc", "a.jpg">>,
     <<"GET", "", "", "b.jpg">>, <<"GET", RawKey(1), "", "c.png">>,
     <<"GET", "", "", "zzz.jpg">>, <<"GET", "", "", "">>, <<"GET", "", "", "../a.jpg">>,
     <<"OPTIONS", "", "", "a.jpg">>, <<"POST", "", "", "a.jpg">>}

\* GET /api/images/{filename} against the admin changing the setting and the key
NextServe ==
    \/ KeyPolicy
    \/ SettingsPolicy
    \/ \E f \in ServeForms, q \in Bool : ServeRequest(f[1], f[2], f[3], f[4], q)
    \/ \E e \in Bool, o \in Bool : Options(e, o)
    \/ \E q \in Bool : ServeValidate(q)
    \/ \E e \in Bool : ServeLastUsed(e)
    \/ \E q \in Bool, c \in Bool, o \in Bool : ServeFind(q, c, o)

SpecServe == InUse /\ [][NextServe]_vars

\* setup forms: the username, the password, its confirmation
SetupForms ==
    {<<"", "secret1", "secret1">>, <<"admin", "", "">>, <<"ab", "secret1", "secret1">>,
     <<"admin", "short", "short">>, <<"admin", "secret1", "secret2">>,
     <<"admin", "secret1", "secret1">>, <<"root", "secret1", "secret1">>}

\* login forms: the username, the password
LoginForms ==
    {<<"", "secret1">>, <<"admin", "">>, <<"admin", "secret1">>, <<"admin", "wrong">>,
     <<"root", "secret1">>, <<"nobody", "secret1">>}

\* the calls of HandleSetup: the method, the form, whether HasAdminUsers answers
\* (a GET reads no form; without an answer the handler reads nothing further)
SetupCalls ==
    {<<"GET", <<"", "", "">>, TRUE>>, <<"POST", <<"admin", "secret1", "secret1">>, FALSE>>}
    \cup {<<"POST", f, TRUE>> : f \in SetupForms}

\* the calls of HandleLogin: the method, the form, whether the user lookup answers
LoginCalls ==
    {<<"GET", <<"", "">>, TRUE>>, <<"POST", <<"admin", "secret1">>, FALSE>>}
    \cup {<<"POST", f, TRUE>> : f \in LoginForms}

\* setup, login, logout, guarded pages, the client's cookie, restarts
NextSession ==
    \/ \E c \in Conns, s \in SetupCalls : SetupCheck(c, s[1], s[2][1], s[2][2], s[2][3], s[3])
    \/ \E c \in Conns, e \in Bool : SetupCreate(c, e)
    \/ \E l \in LoginCalls : HandleLogin(l[1], l[2][1], l[2][2], l[3])
    \/ HandleLogout
    \/ \E c \in {jar, kept} : AdminRequest(c)
    \/ \E how \in {"expire", "alter", "drop", "keep"} : ClientCookie(how)
    \/ \E env \in SecretEnvs : Restart(env)

SpecSession == Init /\ [][NextSession]_vars

-----------------------------------------------------------------------------
(* Properties of the credential store, checked under SpecKeys *)

\* C1: after any sequence of create, toggle and delete, GetAPIKeyByKey (the query
\* answering) returns a record for a token exactly when a row with the hash of
\* that token exists and is enabled, and then that row; a token whose row is
\* disabled gets absent (no record, no error) though its hash matches, and gets
\* its row again once the row is enabled again.
C1_LookupIffEnabledMatch ==
    /\ \A t \in {i.raw : i \in issued} \cup {"bad", RawKey(randSeq + 1)} :
          LET r == GetAPIKeyByKey(t, TRUE)
              match == {k \in api_keys : k.key_hash = SHA256Hex(t)}
          IN  /\ ~r.err
              /\ (r.key # Nil) <=> (\E k \in match : k.enabled)
              /\ r.key # Nil => r.key \in match /\ r.key.enabled
    /\ \A i \in issued :
          LET r == GetAPIKeyByKey(i.raw, TRUE)
          IN  /\ r.key # Nil => r.key.id = i.id /\ r.key.name = i.name
              /\ (adminResp.handler = "toggle" /\ adminResp.keyID = i.id
                    /\ adminResp.msg = "success=API key disabled successfully")
                 => r = [err |-> FALSE, key |-> Nil]
              /\ (adminResp.handler = "toggle" /\ adminResp.keyID = i.id
                    /\ adminResp.msg = "success=API key enabled successfully"
                    /\ KeyById(i.id) # {})
                 => r.key # Nil

\* C1 witness: a key has just been disabled, its row still stored with the hash
\* of the issued token
C1_DisabledKeyStored ==
    /\ adminResp.handler = "toggle"
    /\ adminResp.msg = "success=API key disabled successfully"
    /\ \E i \in issued : \E k \in api_keys :
          k.id = i.id /\ k.id = adminResp.keyID /\ k.key_hash = SHA256Hex(i.raw) /\ ~k.enabled

\* C10: the step of HandleRegenerateAPIKey that ends it with success leaves the
\* token issued for the old row without a record, and issues a token for a row
\* carrying the old row's name, for which the lookup returns that row.
C10_RegenerateSwapsToken ==
    [][(regen.pc = "create" /\ adminResp'.handler = "regenerate"
          /\ adminResp'.msg = "success=API key regenerated successfully")
       => /\ \A i \in issued :
                i.id = regen.keyID => (GetAPIKeyByKey(i.raw, TRUE))' = [err |-> FALSE, key |-> Nil]
          /\ \E n \in issued' \ issued :
                /\ n.name = regen.existingKey.name
                /\ n.id = adminResp'.newID
                /\ (GetAPIKeyByKey(n.raw, TRUE))'.key # Nil
                /\ (GetAPIKeyByKey(n.raw, TRUE))'.key.id = n.id
                /\ (GetAPIKeyByKey(n.raw, TRUE))'.key.name = regen.existingKey.name]_vars

\* C10 witness: a regeneration has just succeeded for a key whose token was issued
C10_Regenerated ==
    /\ adminResp.handler = "regenerate"
    /\ adminResp.msg = "success=API key regenerated successfully"
    /\ \E i \in issued : i.id = adminResp.keyID
    /\ \E k \in api_keys : k.id = adminResp.newID

-----------------------------------------------------------------------------
(* Properties of the API-key guard, checked under SpecGuard *)

\* the tokens a client may present
ClientTokens == {RawKey(i) : i \in 1 .. MaxKeys} \cup {"bad"}

\* the request in flight carries token t: in X-API-Key, or, X-API-Key being empty,
\* in Authorization behind "Bearer "
Carries(t) ==
    \/ req.xApiKey = t
    \/ req.xApiKey = "" /\ req.authorization = "Bearer " \o t

\* C2: a request that main hands to RequireAPIKey is answered 401 when it carries
\* no token (X-API-Key first, then Authorization with the Bearer prefix), 401
\* when the lookup returns absent, 500 when the lookup fails, and in these cases
\* the wrapped handler is not called; the handler is called only after the lookup
\* returned an enabled record for the carried token, with that record in the
\* context, and exactly once.
C2_GuardContract ==
    (/\ req.pc # "idle"
     /\ req.route = "images"
     /\ req.method # "OPTIONS"
     /\ req.reads # <<>>
     /\ req.reads[1].failed \/ req.reads[1].value = "true")
    => /\ (\A t \in ClientTokens : ~Carries(t))
          => req.pc = "done" /\ req.status = 401 /\ req.handlerCalls = 0
               /\ req.lookup = "none"
       /\ (\E t \in ClientTokens : Carries(t))
          => req.pc = "validate" \/ req.lookup # "none"
       /\ req.lookup = "absent"
          => req.pc = "done" /\ req.status = 401 /\ req.handlerCalls = 0 /\ req.ctxKey = Nil
       /\ req.lookup = "error"
          => req.pc = "done" /\ req.status = 500 /\ req.handlerCalls = 0 /\ req.ctxKey = Nil
       /\ req.handlerCalls <= 1
       /\ req.handlerCalls = 1
          => /\ req.lookup = "found"
             /\ req.ctxKey # Nil
             /\ req.ctxKey.enabled
             /\ \E t \in ClientTokens : Carries(t) /\ req.ctxKey.key_hash = SHA256Hex(t)
       /\ req.lookup = "found" => req.pc = "lastUsed" \/ req.handlerCalls = 1

\* C2 witness: a request with its token behind "Bearer " went through the guard
\* and its handler answered
C2_BearerServed ==
    /\ req.pc = "done"
    /\ req.route = "images"
    /\ req.xApiKey = ""
    /\ req.authorization = "Bearer " \o RawKey(1)
    /\ req.lookup = "found"
    /\ req.handlerCalls = 1
    /\ req.status = 200

-----------------------------------------------------------------------------
(* Properties of GET /api/images against changes of the setting, checked under SpecList *)

\* C4: whatever the interleaving with settings changes and key toggles and
\* deletes, a request on /api/images for which the lookup found no enabled key
\* (none was made, or it ended absent or in error) is answered with an image list
\* only if some read of require_api_key_for_images made for it did not fail and
\* met a value other than "true".
C4_NoListWithoutKeyWhileRequired ==
    (/\ req.pc = "done"
     /\ req.route = "images"
     /\ req.body.kind = "images"
     /\ req.lookup # "found")
    => \E i \in DOMAIN req.reads : ~req.reads[i].failed /\ req.reads[i].value # "true"

\* C4 witness: a request carrying a token that matches no key got its list, both
\* of its reads having met "false", while the admin wrote the setting under it
C4_ListWhileSwitchedOff ==
    /\ req.pc = "done"
    /\ req.route = "images"
    /\ req.body.kind = "images"
    /\ req.xApiKey = "bad"
    /\ req.lookup = "none"
    /\ Len(req.reads) = 2
    /\ req.reads[1] = [failed |-> FALSE, value |-> "false"]
    /\ req.reads[2] = [failed |-> FALSE, value |-> "false"]
    /\ requireHist = [by |-> "admin", raced |-> TRUE]

\* C5: with require_api_key_for_images last stored by a settings submission and
\* not written since the request arrived, a GET on /api/images without a key is,
\* when "false" is stored and the reads of the setting answer, not rejected as
\* unauthorized (the guard is skipped, the handler runs once without a key); when
\* "true" is stored it is answered 401 and the handler is not called.
C5_SettingSeenByNextRequest ==
    (/\ req.pc = "done"
     /\ req.route = "images"
     /\ req.method = "GET"
     /\ req.xApiKey = ""
     /\ req.authorization = ""
     /\ requireHist.by = "admin"
     /\ ~requireHist.raced)
    => /\ (settings[RequireKey] = "false" /\ \A i \in DOMAIN req.reads : ~req.reads[i].failed)
          => /\ req.status # 401
             /\ req.handlerCalls = 1
             /\ req.lookup = "none"
             /\ req.apiKey = Nil
       /\ settings[RequireKey] = "true"
          => req.status = 401 /\ req.handlerCalls = 0

\* C5 witness: "false" was stored by the admin, and the request that arrived
\* next without a key got its list
C5_KeylessListAfterFalse ==
    /\ req.pc = "done"
    /\ req.route = "images"
    /\ req.xApiKey = ""
    /\ req.authorization = ""
    /\ requireHist = [by |-> "admin", raced |-> FALSE]
    /\ settings[RequireKey] = "false"
    /\ req.status = 200
    /\ req.body.kind = "images"

-----------------------------------------------------------------------------
(* Properties of GET /api/images/{filename}, checked under SpecServe *)

C7_ServedWithoutAuthentication ==
    (/\ req.pc = "done"
     /\ req.route = "serve"
     /\ req.method = "GET"
     /\ req.xApiKey = ""
     /\ req.authorization = ""
     /\ \E i \in image_files : i.filename = Base(req.filename) /\ i.enabled
     /\ Base(req.filename) \in disk)
    => req.status = 500 \/ (req.status = 200 /\ req.body.kind = "file")

-----------------------------------------------------------------------------
(* Properties of the admin session, checked under SpecSession *)

\* the cookie verifies under the key of the running process and carries both values
Resolves(c) ==
    /\ c.present
    /\ c.intact
    /\ ~c.expired
    /\ c.key = storeKey
    /\ "int" \in DOMAIN c.values.user_id
    /\ "string" \in DOMAIN c.values.username

\* C3: RequireAdminAuth calls the wrapped handler only for a request whose
\* session resolves to an identity (user id and username both there), once, with
\* that identity in the context; every other request (no cookie, altered,
\* expired, signed under another key, values missing) is redirected to
\* /admin/login and the handler is not called.
C3_AdminGuardContract ==
    web.handler = "page"
    => /\ Resolves(web.cookie)
          => /\ web.handlerCalls = 1
             /\ web.code = 200
             /\ web.user = [id       |-> web.cookie.values.user_id.int,
                            username |-> web.cookie.values.username.string]
       /\ ~Resolves(web.cookie)
          => /\ web.handlerCalls = 0
             /\ web.code = 303
             /\ web.target = "/admin/login"
             /\ web.user = Nil

\* C3 witness: a cookie signed under the key of an earlier process was presented
\* and the request was redirected
C3_OldKeyRedirected ==
    /\ web.handler = "page"
    /\ web.cookie.present
    /\ web.cookie.intact
    /\ ~web.cookie.expired
    /\ web.cookie.key # storeKey
    /\ web.code = 303
    /\ web.handlerCalls = 0

\* C8: the cookie a successful login sets through SetAdminSession for admin U
\* makes GetAdminFromSession return U's id and username when it is presented;
\* after a logout in which ClearAdminSession succeeded, GetAdminFromSession on
\* what the client then presents returns absent.
C8_SessionRoundTrip ==
    /\ (web.handler = "login" /\ web.code = 303)
       => /\ GetAdminFromSession(jar) = [err |-> FALSE, user |-> web.user]
          /\ \E u \in admin_users : web.user = [id |-> u.id, username |-> u.username]
    /\ (web.handler = "logout" /\ web.msg = "cleared")
       => GetAdminFromSession(jar) = [err |-> FALSE, user |-> Nil]

\* C8 witness: a client holding a session that resolved has logged out
C8_LoggedOut ==
    /\ web.handler = "logout"
    /\ web.msg = "cleared"
    /\ Resolves(web.cookie)

\* C9: whatever cookie the client presents at login (none, a valid one, an
\* expired one, one that fails verification such as one signed under the key of
\* an earlier process), a login with correct credentials (the user lookup
\* answering) succeeds and leaves the client with a session that resolves to
\* the admin who logged in.
C9_LoginOverwritesAnyCookie ==
    (web.handler = "login" /\ web.credsOK)
    => /\ web.code = 303
       /\ web.target = "/admin"
       /\ GetAdminFromSession(jar).user = web.user
       /\ web.user # Nil

-----------------------------------------------------------------------------
(* Properties of the raw token, checked under SpecKeys *)

\* C11: every stored enabled key, whether made by HandleNewAPIKey or by
\* HandleRegenerateAPIKey, has had its raw token carried by exactly one response;
\* no token is carried by more than one.
C11_RawShownExactlyOnce ==
    /\ \A k \in api_keys :
          k.enabled => \E i \in issued : i.id = k.id /\ i.shown = 1
    /\ \A i \in issued : i.shown <= 1

\* the strings a key record carries
KeyStrings(k) == {k.key_hash, k.name}

\* C12: in every reachable state no api_keys row, and no row of another table,
\* holds a raw token that was drawn: the row made for a token holds the hash of
\* it; and neither the list (GetAllAPIKeys) nor the lookup (GetAPIKeyByKey)
\* returns a record carrying a raw token.
C12_NoRawTokenStored ==
    LET raws == {i.raw : i \in issued}
    IN  /\ \A k \in api_keys :
              /\ KeyStrings(k) \cap raws = {}
              /\ \E i \in issued : i.id = k.id /\ k.key_hash = SHA256Hex(i.raw)
        /\ \A k \in GetAllAPIKeys(TRUE).keys : KeyStrings(k) \cap raws = {}
        /\ \A r \in raws :
              GetAPIKeyByKey(r, TRUE).key # Nil
              => KeyStrings(GetAPIKeyByKey(r, TRUE).key) \cap raws = {}
        /\ \A key \in DOMAIN settings : settings[key] \notin raws
        /\ \A u \in admin_users : {u.username, u.password_hash} \cap raws = {}
        /\ \A f \in image_files : {f.filename, f.mime_type} \cap raws = {}

\* C12 witness: two keys are stored, the token of one of them just shown, the
\* other one disabled
C12_KeysStored ==
    /\ adminResp.handler = "new"
    /\ \E i \in issued : \E k \in api_keys :
          i.raw = adminResp.newAPIKey /\ k.id = i.id /\ k.enabled
    /\ \E k \in api_keys : ~k.enabled

-----------------------------------------------------------------------------
(* Properties of the count parameter, checked under SpecGuard *)

\* the request on /api/images has run the step that reads the count parameter
CountRead ==
    /\ req.pc # "idle"
    /\ req.route = "images"
    /\ \/ req.pc \in {"total", "random", "log"}
       \/ req.pc = "done" /\ req.at \in {"max", "total", "random", "log"}

\* the count parameter is there and is not a positive integer
CountInvalid == req.countStr # "" /\ (~Atoi(req.countStr).ok \/ Atoi(req.countStr).val <= 0)

\* C13 as stated: an absent count and an invalid one (not an integer, zero,
\* negative) are treated alike: the request goes on with default_image_count.
C13_InvalidCountFallsBack ==
    (CountRead /\ (req.countStr = "" \/ CountInvalid))
    => /\ req.count = req.defaultCount
       /\ req.count <= req.maxCount => req.at # "max"

\* C13 amended: an absent count makes the request go on with
\* default_image_count; a count that is not an integer, or is zero or negative,
\* is answered 400 by the step that reads it, and no image is returned.
C13_InvalidCountRejected ==
    CountRead
    => /\ req.countStr = ""
          => /\ req.count = req.defaultCount
             /\ req.count <= req.maxCount => req.at # "max"
       /\ CountInvalid
          => /\ req.pc = "done"
             /\ req.at = "max"
             /\ req.status = 400
             /\ req.body.kind = "error"
             /\ req.body.images = {}

\* C13 witness: an authorised request with count=abc was answered 400
C13_NotANumberRejected ==
    /\ CountRead
    /\ req.countStr = "abc"
    /\ req.lookup = "found"
    /\ req.status = 400

-----------------------------------------------------------------------------
(* Properties of the counts against the settings and the catalogue, checked under SpecCount *)

\* the count the request asks for: its count parameter, or default_image_count
\* as its read met it
EffectiveCount ==
    IF req.countStr # "" THEN Atoi(req.countStr).val ELSE Atoi(req.defaultRead.value).val

\* C14: an authorised GET on /api/images whose count, given or default, is
\* greater than max_image_count as stored when the handler read it (the reads
\* of the two settings answering) is answered 400 by the step that compares them
\* and gets no image, however many enabled images there are.
C14_OverMaximumRejected ==
    (/\ CountRead
     /\ req.lookup = "found"
     /\ ~CountInvalid
     /\ ~req.defaultRead.failed
     /\ ~req.maxRead.failed
     /\ EffectiveCount > Atoi(req.maxRead.value).val)
    => /\ req.pc = "done"
       /\ req.at = "max"
       /\ req.status = 400
       /\ req.body.kind = "error"
       /\ req.body.images = {}

\* C14 witness: a request without a count met the default already raised to 2
\* and the maximum still at 1, with two images enabled, and was answered 400
C14_DefaultOverMaximum ==
    /\ CountRead
    /\ req.lookup = "found"
    /\ req.countStr = ""
    /\ req.defaultRead = [failed |-> FALSE, value |-> "2"]
    /\ req.maxRead = [failed |-> FALSE, value |-> "1"]
    /\ GetImageFileCount = 2
    /\ req.status = 400

\* C15: an authorised GET on /api/images without a count that is answered with a
\* list gets exactly default_image_count images (as its read met it), all of
\* them enabled rows of the catalogue the handler counted, the count field being
\* their number; and it is answered 400 exactly when that count exceeds the
\* maximum or the number of enabled images, also while the admin enables,
\* disables and deletes images.
C15_ExactlyDefaultCount ==
    (/\ CountRead
     /\ req.pc = "done"
     /\ req.lookup = "found"
     /\ req.countStr = ""
     /\ ~req.defaultRead.failed
     /\ ~req.maxRead.failed)
    => /\ req.body.kind = "images"
          => /\ Cardinality(req.body.images) = Atoi(req.defaultRead.value).val
             /\ req.body.count = Cardinality(req.body.images)
       /\ req.status = 400
          <=> \/ req.count > req.maxCount
              \/ req.at = "total" /\ req.count > req.totalImages

\* the row of a file name
RowOf(filename) == {i \in image_files : i.filename = filename}

\* C16: an authorised GET /api/images/{filename} that finds the row of the file
\* disabled is answered 404 without the file; the rows GET /api/images selects are
\* enabled rows; and a file whose row is enabled (again) and that is on disk is served
C16_DisabledImageNotServed ==
    [][/\ (req.pc = "find" /\ req.route = "serve" /\ req.lookup = "found" /\ req'.pc = "done")
          => IF \E i \in RowOf(Base(req.filename)) : ~i.enabled
             THEN req'.status = 404 /\ req'.body.kind # "file"
             ELSE (RowOf(Base(req.filename)) # {} /\ Base(req.filename) \in disk)
                     => /\ req'.status = 200
                        /\ req'.body.kind = "file"
                        /\ req'.body.file = Base(req.filename)
       /\ (req.pc = "random" /\ req'.pc = "log")
          => \A f \in req'.images : \E i \in RowOf(f) : i.enabled]_vars

\* a.jpg, enabled at first, was disabled by the admin and the request for it with a
\* valid key was then answered 404
C16_DisabledAnswered404 ==
    /\ req.pc = "done"
    /\ req.route = "serve"
    /\ req.lookup = "found"
    /\ req.filename = "a.jpg"
    /\ req.at = "find"
    /\ req.status = 404
    /\ \E i \in RowOf("a.jpg") : ~i.enabled
    /\ adminResp.handler = "toggleImage"
    /\ adminResp.msg = "success=Image disabled successfully"

\* C17: on both key-gated endpoints a request whose credential lookup failed in
\* the store is answered 500, never 401
C17_LookupFailureIs500 ==
    (req.pc = "done" /\ req.lookup = "error") => req.status = 500

\* C18: the step after UpdateAPIKeyLastUsed and the response after LogAPIRequest
\* are the same function of the request whether the write took effect or failed:
\* the request goes on to the handler (to the lookup of the file), and the list is
\* answered 200 with the images selected
C18_SideEffectFailureSwallowed ==
    [][/\ (req.pc = "lastUsed" /\ req' # req)
          => req' = IF req.route = "images"
                    THEN [req EXCEPT !.pc = "handler", !.handlerCalls = @ + 1]
                    ELSE [req EXCEPT !.pc = "find"]
       /\ (req.pc = "log" /\ req' # req)
          => /\ req'.pc = "done"
             /\ req'.status = 200
             /\ req'.body.kind = "images"
             /\ req'.body.images = req.images
             /\ req'.body.count = Cardinality(req.images)]_vars

\* a list answered 200 to a request with a key although neither the last-used
\* stamp nor the row of api_requests was written
C18_ListServedWithoutWrites ==
    /\ req.pc = "done"
    /\ req.route = "images"
    /\ req.status = 200
    /\ req.body.kind = "images"
    /\ req.body.images # {}
    /\ req.apiKey # Nil
    /\ api_requests = <<>>
    /\ \A k \in api_keys : ~k.last_used

\* C19: under every interleaving of setup requests at most one admin user is
\* ever created
C19_AtMostOneAdmin == Cardinality(admin_users) <= 1

\* a posted login with both fields filled in, the lookup answering, and no admin
\* with that username and password
RejectedLogin(w) ==
    /\ w.handler = "login"
    /\ w.form[1] # ""
    /\ w.form[2] # ""
    /\ w.answered
    /\ ~w.credsOK

\* C20: a login with an unknown username and a login with a known username and a
\* wrong password get the same answer: LoginAdmin returns no user and no error,
\* the login page carries "Invalid username or password", and the cookie the
\* browser holds is left as it was
C20_RejectedLoginsAlike ==
    [][(web' # web /\ RejectedLogin(web'))
          => /\ LoginAdmin(web'.form[1], web'.form[2], TRUE) = [err |-> FALSE, user |-> Nil]
             /\ web'.code = 200
             /\ web'.target = "login.html"
             /\ web'.msg = "Invalid username or password"
             /\ web'.user = Nil
             /\ jar' = jar]_vars

\* the admin's own username with a wrong password, answered as an unknown user is
C20_KnownUserWrongPassword ==
    /\ RejectedLogin(web)
    /\ web.form = <<"admin", "wrong">>
    /\ \E u \in admin_users : u.username = "admin"
    /\ web.msg = "Invalid username or password"

\* C21: a run of InitializeDefaultSettings that returns nil leaves a store whose
\* five keys all held non-empty values as it was, leaves the store the previous
\* run left as it was, and leaves exactly the five defaults in an empty store
C21_SeedIdempotent ==
    (settingsJob.pc = "seeded" /\ ~settingsJob.err)
    => /\ (\A k \in DOMAIN DefaultSettings :
              k \in DOMAIN settingsJob.before /\ settingsJob.before[k] # "")
          => settings = settingsJob.before
       /\ settingsJob.hasPrev => settings = settingsJob.prev
       /\ DOMAIN settingsJob.before = {} => settings = DefaultSettings

\* the second run on a store that was empty before the first has returned
C21_SeededTwiceFromEmpty ==
    /\ settingsJob.pc = "seeded"
    /\ ~settingsJob.err
    /\ settingsJob.runs = 2
    /\ settingsJob.hasPrev
    /\ DOMAIN settingsJob.start = {}
    /\ settings = DefaultSettings

C23_SameCredentialDecision ==
    (req.pc # "idle" /\ req.route = "serve" /\ req.lookup = "found")
    => /\ GuardToken(req.xApiKey, req.authorization) # ""
       /\ SHA256Hex(GuardToken(req.xApiKey, req.authorization)) = req.apiKey.key_hash

\* C24: a GET /api/images that presents the token of the key, which is enabled
\* from the arrival of the request to its answer, is not answered 401, whatever
\* the admin writes to require_api_key_for_images meanwhile
C24_ValidTokenNeverUnauthorized ==
    (/\ req.pc = "done"
     /\ req.route = "images"
     /\ req.method = "GET"
     /\ GuardToken(req.xApiKey, req.authorization) = RawKey(1)
     /\ \E k \in api_keys : k.key_hash = SHA256Hex(RawKey(1)) /\ k.enabled)
    => req.status # 401

\* C29: the answer to a GET /api/images that RequireAPIKey authenticated adds one
\* row to api_requests, for the authenticating key and with the count of the
\* response, and the answer to a request that ran without the guard adds none
C29_OneUsageRowPerAuthenticatedList ==
    [][(req.pc = "log" /\ req'.pc = "done")
          => api_requests' =
                IF req.ctxKey # Nil
                THEN Append(api_requests, [api_key_id |-> req.ctxKey.id,
                                           image_count |-> req'.body.count])
                ELSE api_requests]_vars

\* C25: in every state of the settings table default_image_count and
\* max_image_count are positive integers and the default is not above the maximum
C25_CountsOrdered ==
    LET d == Atoi(settings["default_image_count"])
        m == Atoi(settings["max_image_count"])
    IN  /\ d.ok /\ d.val >= 1
        /\ m.ok /\ m.val >= 1
        /\ d.val <= m.val

\* C26: every upload that reported success has a row in image_files whose file is
\* in the upload directory and holds the bytes of that upload
C26_UploadKeepsOwnFile ==
    \A c \in Conns :
        (uploads[c].pc = "done" /\ uploads[c].ok)
        => /\ RowOf(uploads[c].filename) # {}
           /\ uploads[c].filename \in disk
           /\ fileData[uploads[c].filename] = uploads[c].data

\* C27: the request that follows a completed logout and carries the cookie that
\* logout cleared, replayed from a retained copy, does not pass RequireAdminAuth
C27_LoggedOutCookieRejected ==
    [][(/\ web.handler = "logout"
        /\ web.msg = "cleared"
        /\ web.cookie.present
        /\ web'.handler = "page"
        /\ web'.cookie = web.cookie)
          => web'.code # 200]_vars

\* C28: when HandleRegenerateAPIKey answers after its create step, either it
\* reports success and one new record with the name of the original has taken
\* the place of the original, or it reports failure and the original record is
\* still in api_keys with its hash
C28_RegenerateAllOrNothing ==
    [][(regen.pc = "create" /\ regen'.pc = "idle" /\ adminResp'.handler = "regenerate")
          => IF adminResp'.msg = "success=API key regenerated successfully"
             THEN /\ KeyById(regen.keyID)' = {}
                  /\ \E k \in api_keys' : /\ k.id = adminResp'.newID
                                           /\ k.name = regen.existingKey.name
                                           /\ k.key_hash # regen.existingKey.key_hash
             ELSE \E k \in api_keys' : /\ k.id = regen.keyID
                                      /\ k.key_hash = regen.existingKey.key_hash]_vars

\* a cookie that carries an admin identity and has not been altered or aged out
Identifies(c) ==
    /\ c.present /\ c.intact /\ ~c.expired
    /\ "int" \in DOMAIN c.values.user_id
    /\ "string" \in DOMAIN c.values.username

\* C30: the session key has 32 bytes and is the bytes of the secret cut or
\* zero-padded to 32; a request with a cookie issued under the configured secret
\* of the running process is let in as the admin of the cookie, and in a process
\* started without a secret a cookie of an earlier run is not
C30_SessionKeyFromSecret ==
    /\ Len(storeKey) = 32
    /\ \A s \in BootSecrets \ {""} :
          LET k == NewAuthServiceKey(s)
              b == IF Len(s) % 2 = 0 /\ Len(s) >= 32 /\ IsHex(s) THEN HexDecode(s)
                   ELSE Bytes(s)
          IN  /\ Len(k) = 32
              /\ \A i \in 1 .. 32 : k[i] = IF i <= Len(b) THEN b[i] ELSE "#00"
    /\ (web.handler = "page" /\ Identifies(web.cookie))
          => /\ (\E s \in BootSecrets \ {""} :
                    storeKey = NewAuthServiceKey(s) /\ web.cookie.key = NewAuthServiceKey(s))
                => /\ web.code = 200
                   /\ web.user = [id |-> web.cookie.values.user_id.int,
                                   username |-> web.cookie.values.username.string]
             /\ (/\ storeKey = NewAuthServiceKey(RandomSecret(boots))
                 /\ \/ \E n \in 0 .. (boots - 1) :
                          web.cookie.key = NewAuthServiceKey(RandomSecret(n))
                    \/ \E s \in BootSecrets \ {""} :
                          web.cookie.key = NewAuthServiceKey(s))
                => web.code = 303 /\ web.user = Nil

\* a cookie issued by a process without a secret, refused by the next process
\* without a secret
C30_RandomSecretForgotten ==
    /\ boots = 1
    /\ web.handler = "page"
    /\ Identifies(web.cookie)
    /\ web.cookie.key = NewAuthServiceKey(RandomSecret(0))
    /\ storeKey = NewAuthServiceKey(RandomSecret(1))
    /\ web.code = 303

====
